---- MODULE Spec2Model ----
(***************************************************************************)
(* The devpilot event collector: the polling loop of `devpilot collect`    *)
(* (apps/cli/src/commands/collect.ts), the ingestor it feeds               *)
(* (packages/ingestor/src/index.ts) and the event store                    *)
(* (packages/ingestor/src/database.ts).                                    *)
(*                                                                         *)
(* Text is a sequence of one-character strings.  A hash (sha1) is modelled *)
(* by its preimage, i.e. as collision free.  randomUUID() is modelled as a *)
(* value never drawn before (the counter uuid).  ISO timestamps are        *)
(* natural numbers ordered like the instants they denote.                  *)
(***************************************************************************)
EXTENDS Integers, Sequences, FiniteSets, TLC

\* ------------------------------------------------------------------ bounds
\* Longest log file the workspace grows to, in bytes.
MaxFileLen == 5
\* Latest instant the wall clock reaches.
MaxClock == 1
\* Polls started over the life of the workspace (all process runs together).
MaxPolls == 3
\* Times the collector process is started.
MaxStarts == 2

\* Event ids a caller of the store passes to insertEvent.
MaxEventIds == 2
\* Tasks a caller of the store upserts without an id.
MaxGenerated == 1

\* Events in the store that listEvents is called on.
MaxListed == 3
\* Largest limit a caller passes to listEvents.
MaxLimit == 2
\* Summaries a notifier holds in its queue at most.
MaxPending == 1

\* Clock ticks (milliseconds in the code) per second, scaled down: datetime()
\* of SQLite keeps whole seconds.
TicksPerSecond == 2

\* The processed-commit cap of collectGitDiffs (200 in the source), scaled
\* down together with the commit universe so that the eviction happens.
PROCESSED_LIMIT == 2

\* DEFAULT_SINCE, new Date(0).toISOString(): the epoch.
DEFAULT_SINCE == 0

\* ------------------------------------------------------------- workspace
\* The log file of the workspace, relative to the working directory.
LogPath == ".vk/agent.log"
LogName == "agent.log"
Paths == {LogPath}

\* What else .vk may hold: the log of an earlier agent, which is removed or
\* makes way for a directory of the same name, and a file that is no log.
OldLogPath == ".vk/old.log"
NotesPath == ".vk/notes.txt"
\* The order in which readdir lists the entries of .vk.
DirOrder == <<LogPath, NotesPath, OldLogPath>>
\* A path by its parts: path.join(vkDirectory, entry.name) and the name's end.
NameOf(path) ==
  CASE path = LogPath    -> [name |-> LogName,     ext |-> ".log"]
    [] path = OldLogPath -> [name |-> "old.log",   ext |-> ".log"]
    [] path = NotesPath  -> [name |-> "notes.txt", ext |-> ".txt"]

\* The lines the agent writes to its log (each followed by a newline).
LineTexts == {<<"a">>}

\* What else the agent writes: a line ending in CR LF, a line of blanks.
TailTexts == {<<"a">>, <<"b", "\r">>, <<" ">>}

\* Commit identifiers, in the order the workspace creates them.
Shas == <<"c1", "c2", "c3">>

\* Pieces of the text `git show <sha> --patch` prints.
DiffGit == <<"d", "i", "f", "f", " ", "-", "-", "g", "i", "t", " ">>
HeaderLine(f) == DiffGit \o <<"a", "/">> \o f \o <<" ", "b", "/">> \o f \o <<"\n">>
OldFileLine(f) == <<"-", "-", "-", " ", "a", "/">> \o f \o <<"\n">>
NewFileLine(f) == <<"+", "+", "+", " ", "b", "/">> \o f \o <<"\n">>
F1 == <<"f">>
F2 == <<"g">>

\* The patch `git show <sha>` prints for each commit of the workspace.
PatchOf(sha) ==
  CASE sha = "c1" -> HeaderLine(F1) \o <<"+", "x", "\n">>
    [] sha = "c2" -> HeaderLine(F1) \o OldFileLine(F1) \o NewFileLine(F1)
                       \o <<"-", "x", "\n", "+", "y", "\n">>
                       \o HeaderLine(F2) \o <<"-", "z", "\n">>
    [] OTHER      -> HeaderLine(F2) \o <<"+", "z", "\n">>

\* .vk/tasks.json of the workspace.
Manifest == <<[id |-> <<"TASK-", "4", "2">>, title |-> "Demo task"]>>

\* A .vk/tasks.json whose second entry carries no `id` (or one that is not a
\* string: `typeof id === "string" ? id : undefined` treats both alike).
MixedManifest == Manifest \o <<[id |-> <<>>, title |-> "Loose task"]>>

Absent == "absent"
Corrupt == "corrupt"
None == "none"
\* An optional text that is not there (undefined, null).
NoText == <<>>

\* ------------------------------------------------------------ text helpers
Whitespace == {" ", "\t", "\r", "\n"}

RECURSIVE TrimStart(_)
TrimStart(s) ==
  IF s # <<>> /\ Head(s) \in Whitespace THEN TrimStart(Tail(s)) ELSE s

RECURSIVE TrimEnd(_)
TrimEnd(s) ==
  IF s # <<>> /\ s[Len(s)] \in Whitespace
  THEN TrimEnd(SubSeq(s, 1, Len(s) - 1)) ELSE s

\* String.prototype.trim
Trim(s) == TrimEnd(TrimStart(s))

\* The separator /\r?\n/ takes a carriage return that precedes the newline.
DropCR(s) ==
  IF s # <<>> /\ s[Len(s)] = "\r" THEN SubSeq(s, 1, Len(s) - 1) ELSE s

\* text.split(/\r?\n/): the pieces between consecutive newlines.
SplitLines(text) ==
  LET nl       == {i \in 1..Len(text) : text[i] = "\n"}
      n        == Cardinality(nl)
      nth(k)   == CHOOSE i \in nl : Cardinality({j \in nl : j < i}) = k - 1
      from(k)  == IF k = 1 THEN 1 ELSE nth(k - 1) + 1
      to(k)    == IF k = n + 1 THEN Len(text) ELSE nth(k) - 1
  IN  [k \in 1..(n + 1) |-> IF k = n + 1 THEN SubSeq(text, from(k), to(k))
                            ELSE DropCR(SubSeq(text, from(k), to(k)))]

\* text.split(/\r?\n/).map((line) => line.trim()).filter(Boolean)
NonBlankLines(text) ==
  LET pieces  == SplitLines(text)
      trimmed == [i \in 1..Len(pieces) |-> Trim(pieces[i])]
  IN  SelectSeq(trimmed, LAMBDA l : l # <<>>)

Range(s) == {s[i] : i \in 1..Len(s)}

Reverse(s) == [i \in 1..Len(s) |-> s[Len(s) + 1 - i]]

\* /\[(?<timestamp>[^\]]+)\]/.exec(line): the leftmost "[" that is followed by
\* at least one character other than "]" and then a "]".
TimestampOf(line) ==
  LET closes   == {j \in 1..Len(line) : line[j] = "]"}
      close(i) == CHOOSE j \in closes : j > i /\ \A k \in closes : k > i => j <= k
      starts   == {i \in 1..Len(line) :
                     line[i] = "[" /\ (\E j \in closes : j > i) /\ close(i) > i + 1}
      first    == CHOOSE i \in starts : \A k \in starts : i <= k
  IN  IF starts = {} THEN <<>> ELSE SubSeq(line, first + 1, close(first) - 1)

\* line.includes(":") ? line.split(":").slice(1).join(":").trim() : line.trim()
MessagePartOf(line) ==
  LET colons == {i \in 1..Len(line) : line[i] = ":"}
      first  == CHOOSE i \in colons : \A k \in colons : i <= k
  IN  Trim(IF colons # {} THEN SubSeq(line, first + 1, Len(line)) ELSE line)

\* createHash("sha1").update(`${timestamp}|${messagePart}`)
createDeterministicLogId(line) == TimestampOf(line) \o <<"|">> \o MessagePartOf(line)

\* ---------------------------------------------------------------- tailer
\* offsets[relativePath] ?? 0
OffsetOf(offsets, path) == IF path \in DOMAIN offsets THEN offsets[path] ELSE 0

\* An assignment that leaves only the entry it writes.
SetOnly(offsets, path, value) == [q \in {path} |-> value]

\* offsets[relativePath] = value
SetOffset(offsets, path, value) ==
  [q \in DOMAIN offsets \cup {path} |-> IF q = path THEN value ELSE offsets[q]]

\* A tailer that ignores the recorded offset and reads the file from its start.
TailFromStart(buffer, previousOffset) ==
  [lines |-> NonBlankLines(buffer), offset |-> Len(buffer)]

\* A tailer that keeps the recorded offset when the file has shrunk below it.
TailNoRestart(buffer, previousOffset) ==
  IF Len(buffer) <= previousOffset
  THEN [lines |-> <<>>, offset |-> Len(buffer)]
  ELSE [lines  |-> NonBlankLines(SubSeq(buffer, previousOffset + 1, Len(buffer))),
        offset |-> Len(buffer)]

\* A tailer that emits the pieces between newlines as they are.
TailUntrimmed(buffer, previousOffset) ==
  LET startOffset == IF Len(buffer) < previousOffset THEN 0 ELSE previousOffset
  IN  [lines  |-> IF Len(buffer) <= startOffset THEN <<>>
                  ELSE SplitLines(SubSeq(buffer, startOffset + 1, Len(buffer))),
       offset |-> Len(buffer)]

\* The body of the loop of collectVKLogs for one log file: where the read
\* starts, the lines it emits and the offset it records.
TailFile(buffer, previousOffset) ==
  LET startOffset == IF Len(buffer) < previousOffset THEN 0 ELSE previousOffset
  IN  IF Len(buffer) <= startOffset
      THEN [lines |-> <<>>, offset |-> Len(buffer)]
      ELSE [lines  |-> NonBlankLines(SubSeq(buffer, startOffset + 1, Len(buffer))),
            offset |-> Len(buffer)]

\* The raw log entries collectVKLogs pushes for the lines of one file.
LogEntries(lines, name, nowIso) ==
  [i \in 1..Len(lines) |->
     [id         |-> createDeterministicLogId(lines[i]),
      content    |-> lines[i],
      source     |-> name,
      receivedAt |-> nowIso]]

\* readdir(vkDirectory, { withFileTypes: true }): the files and the
\* directories of .vk
readdir(fs, folders) ==
  LET present == SelectSeq(DirOrder, LAMBDA q : q \in DOMAIN fs \cup folders)
  IN  [i \in 1..Len(present) |->
         [path   |-> present[i],
          name   |-> NameOf(present[i]).name,
          ext    |-> NameOf(present[i]).ext,
          isFile |-> present[i] \notin folders]]

\* The loop of collectVKLogs over the entries of .vk from the i-th on.
RECURSIVE TailLoop(_, _, _, _, _)
TailLoop(entries, i, acc, fs, nowIso) ==
  IF i > Len(entries) THEN acc
  ELSE IF ~entries[i].isFile \/ entries[i].ext # ".log"
  THEN TailLoop(entries, i + 1, acc, fs, nowIso)
  ELSE LET t == TailFile(fs[entries[i].path], OffsetOf(acc.offsets, entries[i].path))
       IN  TailLoop(entries, i + 1,
                    [logs    |-> acc.logs \o LogEntries(t.lines, entries[i].name, nowIso),
                     offsets |-> SetOffset(acc.offsets, entries[i].path, t.offset)],
                    fs, nowIso)

\* collectVKLogs over the workspace: nothing when .vk is missing (ENOENT).
collectVKLogs(offsets, fs, nowIso, shape) ==
  IF ~shape.vkDir
  THEN [logs |-> <<>>, offsets |-> offsets]
  ELSE TailLoop(readdir(fs, shape.folders), 1,
                [logs |-> <<>>, offsets |-> offsets], fs, nowIso)

\* ------------------------------------------------------- commit collector
\* What execFileAsync("git", ["log", ...]) gives: it rejects, or resolves with
\* the commit identifiers git printed.
GitFailed == [ok |-> FALSE, stdout |-> <<>>]
GitListed(shas) == [ok |-> TRUE, stdout |-> shas]

RECURSIVE Dedupe(_)
\* Array.from(new Set(list)): first occurrences, in order.
Dedupe(list) ==
  IF list = <<>> THEN <<>>
  ELSE LET rest == Dedupe(SubSeq(list, 1, Len(list) - 1))
           last == list[Len(list)]
       IN  IF last \in Range(rest) THEN rest ELSE Append(rest, last)

\* A collector that evicts the newest entries of the processed list.
TruncateFromBack(list) ==
  IF Len(list) > PROCESSED_LIMIT THEN SubSeq(list, 1, PROCESSED_LIMIT) ELSE list

\* A collector that never evicts from the processed list.
KeepAll(list) == list

\* processedCommits.splice(0, processedCommits.length - 200) when longer
TruncateProcessed(list) ==
  IF Len(list) > PROCESSED_LIMIT
  THEN SubSeq(list, Len(list) - PROCESSED_LIMIT + 1, Len(list))
  ELSE list

\* A collector that does not look a commit up in the processed set.
NeverProcessed(processed, sha) == FALSE

\* if (processed.has(sha)) continue;
AlreadyProcessed(processed, sha) == sha \in Range(processed)

\* A collector that counts a commit whose patch it could not read as done.
SkipAsProcessed(acc, sha) ==
  [acc EXCEPT !.warned = Append(@, sha), !.processed = Append(@, sha)]

\* catch (error) { console.warn(`Unable to read diff for ${sha}`) }
SkipCommit(acc, sha) == [acc EXCEPT !.warned = Append(@, sha)]

RECURSIVE FetchLoop(_, _, _, _, _)
\* for (const sha of commits) { ... }: acc is [diffs, processed, warned].
FetchLoop(commits, i, acc, fetchable, capturedAt) ==
  IF i > Len(commits) THEN acc
  ELSE LET sha == commits[i]
       IN  IF AlreadyProcessed(acc.processed, sha)
           THEN FetchLoop(commits, i + 1, acc, fetchable, capturedAt)
           ELSE IF sha \in fetchable
           THEN FetchLoop(commits, i + 1,
                  [diffs     |-> Append(acc.diffs,
                                  [content    |-> PatchOf(sha),
                                   repository |-> None,
                                   branch     |-> "main",
                                   commit     |-> sha,
                                   capturedAt |-> capturedAt]),
                   processed |-> Append(acc.processed, sha),
                   warned    |-> acc.warned],
                  fetchable, capturedAt)
           ELSE FetchLoop(commits, i + 1, SkipCommit(acc, sha), fetchable, capturedAt)

\* A collector that forgets its processed commits when `git log` fails.
ForgetProcessed(processed) ==
  [diffs |-> <<>>, processedCommits |-> <<>>, warned |-> <<>>]

\* catch (error) { console.warn(`Unable to read git history`); return
\* { diffs, processedCommits: Array.from(processed) } }
HistoryUnreadable(processed) ==
  [diffs |-> <<>>, processedCommits |-> processed, warned |-> <<>>]

\* collectGitDiffs: listing is the outcome of `git log --since` (newest commit
\* first); fetchable are the commits whose `git show` succeeds.
collectGitDiffs(processedCommits, listing, fetchable, capturedAt) ==
  LET processed == Dedupe(processedCommits)
  IN  IF ~listing.ok
      THEN HistoryUnreadable(processed)
      ELSE IF listing.stdout = <<>>
      THEN [diffs |-> <<>>, processedCommits |-> processed, warned |-> <<>>]
      ELSE LET r == FetchLoop(Reverse(listing.stdout), 1,
                      [diffs |-> <<>>, processed |-> processed, warned |-> <<>>],
                      fetchable, capturedAt)
           IN  [diffs |-> r.diffs, processedCommits |-> TruncateProcessed(r.processed),
                warned |-> r.warned]

\* ---------------------------------------------------------------- parsers
Digits == {"0", "1", "2", "3", "4", "5", "6", "7", "8", "9"}

\* A token pattern without the flag i.
SameCase(c) == c

\* Case folding of the letters the task token is spelled with (flag i).
UpperOf(c) ==
  CASE c = "t" -> "T" [] c = "a" -> "A" [] c = "s" -> "S" [] c = "k" -> "K"
    [] c = "i" -> "I" [] c = "u" -> "U" [] c = "e" -> "E" [] c = "b" -> "B"
    [] c = "g" -> "G" [] OTHER -> c

\* word occurs in line at position i, letter case ignored.
WordAt(line, i, word) ==
  /\ i + Len(word) - 1 <= Len(line)
  /\ \A k \in 1..Len(word) : UpperOf(line[i + k - 1]) = word[k]

TokenWords == {<<"T", "A", "S", "K">>, <<"I", "S", "S", "U", "E">>, <<"B", "U", "G">>}

\* Number of digits at the start of line[i..], at most six: \d{2,6} is greedy.
DigitRun(line, i) ==
  LET ok(n) == i + n - 1 <= Len(line) /\ \A k \in 0..(n - 1) : line[i + k] \in Digits
  IN  CHOOSE n \in 0..6 : ok(n) /\ (n = 6 \/ ~ok(n + 1))

\* For a token word at position i: where its digits start, after [-#]?, and
\* how many there are; <<0, 0>> when no token word is at i.
DigitsAfter(line, i) ==
  LET words == {w \in TokenWords : WordAt(line, i, w)}
      j     == i + Len(CHOOSE w \in words : TRUE)
      d     == IF j <= Len(line) /\ line[j] \in {"-", "#"} THEN j + 1 ELSE j
  IN  IF words = {} THEN <<0, 0>> ELSE <<d, DigitRun(line, d)>>

\* TASK_TOKEN = /(TASK|ISSUE|BUG)[-#]?(?<id>\d{2,6})/i: groups.id of the
\* leftmost match in line, <<>> when there is none.
TaskTokenId(line) ==
  LET hits == {i \in 1..Len(line) : DigitsAfter(line, i)[2] >= 2}
      first == CHOOSE i \in hits : \A k \in hits : i <= k
      start == DigitsAfter(line, first)
  IN  IF hits = {} THEN <<>>
      ELSE SubSeq(line, start[1], start[1] + start[2] - 1)

\* The letters [A-Z] stands for under the flag i, and \\w.
Letters ==
  {"A", "B", "C", "D", "E", "F", "G", "H", "I", "J", "K", "L", "M", "N", "O", "P",
   "Q", "R", "S", "T", "U", "V", "W", "X", "Y", "Z", "a", "b", "c", "d", "e", "f",
   "g", "h", "i", "j", "k", "l", "m", "n", "o", "p", "q", "r", "s", "t", "u", "v",
   "w", "x", "y", "z"}
WordChars == Letters \cup Digits \cup {"_"}

\* The first position from `from` on whose character is in `set` (is not in
\* it, for FirstOutside); Len(line) + 1 when there is none.
FirstIn(line, from, set) ==
  LET hits == {i \in from..Len(line) : line[i] \in set}
  IN  IF hits = {} THEN Len(line) + 1 ELSE CHOOSE i \in hits : \A k \in hits : i <= k
FirstOutside(line, from, set) ==
  LET hits == {i \in from..Len(line) : line[i] \notin set}
  IN  IF hits = {} THEN Len(line) + 1 ELSE CHOOSE i \in hits : \A k \in hits : i <= k

\* (?:\s*\|\s*task=(?<taskId>[\w-]+))?$ from position k: where the captured
\* identifier starts, 0 when line[k..] is not such a suffix.
TaskSuffixAt(line, k) ==
  LET bar == FirstOutside(line, k, Whitespace)
      key == FirstOutside(line, bar + 1, Whitespace)
  IN  IF /\ bar <= Len(line) /\ line[bar] = "|"
         /\ WordAt(line, key, <<"T", "A", "S", "K">>)
         /\ key + 4 <= Len(line) /\ line[key + 4] = "="
         /\ key + 5 <= Len(line)
         /\ \A j \in (key + 5)..Len(line) : line[j] \in WordChars \cup {"-"}
      THEN key + 5 ELSE 0

NoMatch ==
  [ok |-> FALSE, timestamp |-> NoText, author |-> NoText, severity |-> NoText,
   message |-> NoText, taskId |-> NoText]

\* The lazy message ends at the first position after which the rest of the
\* line is a task suffix, at the end of the line when there is none.
MessageEnd(line, start) ==
  LET cuts == {e \in start..(Len(line) - 1) : TaskSuffixAt(line, e + 1) # 0}
  IN  IF cuts = {} THEN Len(line) ELSE CHOOSE e \in cuts : \A k \in cuts : e <= k

\* The groups, given where the parts of the line were found: the closing
\* bracket, the start of the author, the first ':' or '|' after the bracket,
\* the colon, and the start and the end of the message.
GroupsAt(line, close, from, stop, colon, start, end) ==
  IF /\ Len(line) > 0 /\ line[1] = "[" /\ 3 <= close /\ close <= Len(line)
     /\ stop <= Len(line) /\ close < from
     /\ (line[stop] = "|" => stop + 1 < colon)
     /\ colon <= Len(line) /\ line[colon] = ":"
     /\ colon < start
  THEN [ok        |-> TRUE,
        timestamp |-> SubSeq(line, 2, close - 1),
        author    |-> SubSeq(line, from, stop - 1),
        severity  |-> IF line[stop] = "|" THEN SubSeq(line, stop + 1, colon - 1)
                      ELSE NoText,
        message   |-> SubSeq(line, start, end),
        taskId    |-> IF end = Len(line) THEN NoText
                      ELSE SubSeq(line, TaskSuffixAt(line, end + 1), Len(line))]
  ELSE NoMatch

\* :\s*(?<message>.+?): \s* is greedy and gives back one character when the
\* message would be empty.
FromText(line, close, from, stop, colon, text) ==
  GroupsAt(line, close, from, stop, colon,
           IF text <= Len(line) THEN text ELSE Len(line),
           MessageEnd(line, IF text <= Len(line) THEN text ELSE Len(line)))

\* (?:\|(?<severity>[A-Z]+))?: under the flag i
FromStop(line, close, word, stop) ==
  FromText(line, close, IF word < stop THEN word ELSE stop - 1, stop,
           IF stop <= Len(line) /\ line[stop] = "|"
           THEN FirstOutside(line, stop + 1, Letters) ELSE stop,
           FirstOutside(line,
                        (IF stop <= Len(line) /\ line[stop] = "|"
                         THEN FirstOutside(line, stop + 1, Letters) ELSE stop) + 1,
                        Whitespace))

\* \]\s*(?<author>[^:|]+): the author runs up to the first ':' or '|'; \s*
\* is greedy and gives back one character when the author would be empty.
FromClose(line, close) ==
  FromStop(line, close, FirstOutside(line, close + 1, Whitespace),
           FirstIn(line, close + 1, {":", "|"}))

\* VK_LOG_PATTERNS[0].exec(line): the groups of
\* ^\[timestamp\]\s*author(?:\|severity)?:\s*message(?:\s*\|\s*task=taskId)?$
\* with the greedy author, the lazy message and the flag i.
MatchBracketed(line) == FromClose(line, FirstIn(line, 2, {"]"}))

\* The instant the text of a timestamp names on the scale of the clock.
ParsedStamp == <<"2", "0", "2", "4">>
StampInstant == 0

\* normalizeTimestamp: new Date(timestamp) when that is a date, the fallback
\* if not.  Texts without a digit are no dates.
normalizeTimestamp(timestamp, fallback) ==
  CASE timestamp = ParsedStamp -> StampInstant
    [] Range(timestamp) \cap Digits = {} -> fallback

\* `TASK-${id}` for the digits a scan found, nothing when it found none.
TaskLabel(token) == IF token = <<>> THEN NoText ELSE <<"TASK-">> \o token

\* A scan for the task token in the captured message only.
ScanMessage(line, message) == TaskLabel(TaskTokenId(message))

\* line.match(TASK_TOKEN)?.groups?.id for a line that matched a pattern, as
\* the taskId of the event
ScanLine(line, message) == TaskLabel(TaskTokenId(line))

\* The event parseVKLog pushes for one line, given what the first pattern
\* matched: the branch of a match, and the branch !match of a line that
\* neither pattern can match.
EventOf(line, receivedAt, match) ==
  CASE match.ok ->
         [message   |-> Trim(match.message),
          createdAt |-> normalizeTimestamp(match.timestamp, receivedAt),
          severity  |-> match.severity,
          author    |-> match.author,
          taskId    |-> IF match.taskId # NoText THEN <<"TASK-">> \o match.taskId
                        ELSE ScanLine(line, Trim(match.message))]
    [] ~match.ok /\ ~(line # <<>> /\ line[1] \in Digits) ->
         [message   |-> line,
          createdAt |-> receivedAt,
          severity  |-> NoText,
          author    |-> NoText,
          taskId    |-> TaskLabel(TaskTokenId(line))]

\* parseVKLog for one line
ParseLine(line, receivedAt) == EventOf(line, receivedAt, MatchBracketed(line))

\* parseVKLog
parseVKLog(log) ==
  LET lines == NonBlankLines(log.content)
  IN  [i \in 1..Len(lines) |-> ParseLine(lines[i], log.receivedAt)]

StartsWith(line, prefix) ==
  Len(line) >= Len(prefix) /\ SubSeq(line, 1, Len(prefix)) = prefix

\* DIFF_SPLIT_REGEX = /^diff --git\s+a\/(.+)\s+b\/(.+)$/gm on one line of the
\* text: the index of the last whitespace before the "b/" that the greedy first
\* group leaves to the second, 0 when the line is no file header.
HeaderSplit(line) ==
  LET a  == CHOOSE k \in 11..(Len(line) + 1) :
              /\ \A m \in 11..(k - 1) : line[m] \in Whitespace
              /\ (k = Len(line) + 1 \/ line[k] \notin Whitespace)
      ks == {k \in (a + 3)..(Len(line) - 3) :
               line[k] \in Whitespace /\ line[k + 1] = "b" /\ line[k + 2] = "/"}
  IN  IF /\ StartsWith(line, SubSeq(DiffGit, 1, 10))
         /\ a >= 12 /\ a + 1 <= Len(line)
         /\ line[a] = "a" /\ line[a + 1] = "/"
         /\ ks # {}
      THEN CHOOSE k \in ks : \A m \in ks : m <= k
      ELSE 0

\* A count of every line that starts with the prefix, file headers included.
CountsAny(line, prefix) == IF StartsWith(line, <<prefix>>) THEN 1 ELSE 0

\* line.startsWith(prefix) && !line.startsWith(prefix.repeat(3)), as 0 or 1
Counts(line, prefix) ==
  IF StartsWith(line, <<prefix>>) /\ ~StartsWith(line, <<prefix, prefix, prefix>>)
  THEN 1 ELSE 0

\* countPrefix(chunk, prefix) over the lines of a chunk
countPrefix(lines, prefix) ==
  Cardinality({i \in 1..Len(lines) : Counts(lines[i], prefix) = 1})

\* fileLine.replace(/^\+\+\+\s+/, "") and .replace(/^---\s+/, ""), for mark c
StripMark(line, c) ==
  IF StartsWith(line, <<c, c, c>>) /\ Len(line) > 3 /\ line[4] \in Whitespace
  THEN TrimStart(SubSeq(line, 4, Len(line)))
  ELSE line

\* deriveFallbackFile
deriveFallbackFile(lines) ==
  LET marks == {i \in 1..Len(lines) :
                  StartsWith(lines[i], <<"+", "+", "+">>) \/ StartsWith(lines[i], <<"-", "-", "-">>)}
      first == CHOOSE i \in marks : \A k \in marks : i <= k
  IN  IF marks = {} THEN <<"untracked">>
      ELSE StripMark(StripMark(lines[first], "+"), "-")

RECURSIVE ChunksFrom(_, _, _)
\* The file chunks of a diff text, line by line: a header line opens a chunk
\* (path: what follows its last " b/"), every other line counts for the chunk
\* opened last.  A header is matched within one line.
ChunksFrom(lines, i, acc) ==
  IF i > Len(lines) THEN acc
  ELSE LET k == HeaderSplit(lines[i])
       IN  ChunksFrom(lines, i + 1,
             IF k > 0
             THEN Append(acc, [filePath  |-> SubSeq(lines[i], k + 3, Len(lines[i])),
                               additions |-> 0,
                               deletions |-> 0])
             ELSE IF acc = <<>> THEN acc
             ELSE [acc EXCEPT ![Len(acc)].additions = @ + Counts(lines[i], "+"),
                              ![Len(acc)].deletions = @ + Counts(lines[i], "-")])

\* The records parseGitDiff builds for a diff text, without their createdAt.
ParseContent(content) ==
  LET lines  == SplitLines(content)
      chunks == ChunksFrom(lines, 1, <<>>)
  IN  IF chunks # <<>> THEN chunks
      ELSE IF Trim(content) # <<>>
      THEN <<[filePath  |-> deriveFallbackFile(lines),
              additions |-> countPrefix(lines, "+"),
              deletions |-> countPrefix(lines, "-")]>>
      ELSE <<>>

\* parseGitDiff: one record per file chunk, stamped diff.capturedAt
parseGitDiff(diff) ==
  LET chunks == ParseContent(diff.content)
  IN  [n \in 1..Len(chunks) |->
         [filePath  |-> chunks[n].filePath,
          additions |-> chunks[n].additions,
          deletions |-> chunks[n].deletions,
          createdAt |-> diff.capturedAt]]

\* formatDiffMessage
formatDiffMessage(d) ==
  d.filePath \o <<" ", IF d.additions >= d.deletions THEN "expansion" ELSE "shrink",
                  " (+", ToString(d.additions), "/-", ToString(d.deletions), ")">>

\* --------------------------------------------------------------- ingestor
\* DEFAULT_SOURCE of the ingestor
DEFAULT_SOURCE == "workspace"

\* entry.severity?.toLowerCase() === "error"
IsError(severity) ==
  /\ Len(severity) = 5
  /\ severity[1] \in {"e", "E"} /\ severity[2] \in {"r", "R"} /\ severity[3] \in {"r", "R"}
  /\ severity[4] \in {"o", "O"} /\ severity[5] \in {"r", "R"}

\* toDigestEventsFromVK: every event takes its id from randomUUID(), here the
\* values after firstId.
toDigestEventsFromVK(parsed, source, firstId) ==
  [i \in 1..Len(parsed) |->
     [id        |-> firstId + i,
      type      |-> IF IsError(parsed[i].severity) THEN "incident" ELSE "vk_log",
      source    |-> source,
      message   |-> parsed[i].message,
      createdAt |-> parsed[i].createdAt,
      taskId    |-> parsed[i].taskId,
      commit    |-> None,
      filePath  |-> NoText]]

\* toDigestEventsFromDiff: again one randomUUID() per event.
\* An ingestor that makes no event of a diff.
DropDiffEvents(parsed, context, firstId) == <<>>

toDigestEventsFromDiff(parsed, context, firstId) ==
  [i \in 1..Len(parsed) |->
     [id        |-> firstId + i,
      type      |-> "git_diff",
      source    |-> IF context.repository = None THEN "unknown" ELSE context.repository,
      message   |-> formatDiffMessage(parsed[i]),
      createdAt |-> parsed[i].createdAt,
      taskId    |-> NoText,
      commit    |-> context.commit,
      filePath  |-> parsed[i].filePath]]

RECURSIVE EventsOfLogs(_, _, _, _)
\* for (const log of vkLogs) { ... events.push(...digestEvents) }
EventsOfLogs(vkLogs, i, acc, firstId) ==
  IF i > Len(vkLogs) THEN acc
  ELSE EventsOfLogs(vkLogs, i + 1,
         acc \o toDigestEventsFromVK(parseVKLog(vkLogs[i]),
                  IF vkLogs[i].source = None THEN DEFAULT_SOURCE ELSE vkLogs[i].source,
                  firstId + Len(acc)),
         firstId)

RECURSIVE EventsOfDiffs(_, _, _, _)
\* for (const diff of diffs) { ... events.push(...digestEvents) }
EventsOfDiffs(diffs, i, acc, firstId) ==
  IF i > Len(diffs) THEN acc
  ELSE EventsOfDiffs(diffs, i + 1,
         acc \o toDigestEventsFromDiff(parseGitDiff(diffs[i]),
                  [repository |-> IF diffs[i].repository = None THEN DEFAULT_SOURCE
                                  ELSE diffs[i].repository,
                   branch     |-> diffs[i].branch,
                   commit     |-> diffs[i].commit],
                  firstId + Len(acc)),
         firstId)

\* The events Ingestor.ingest hands to the database: those of the logs, then
\* those of the diffs.  lastUuid is the last value randomUUID() has returned.
IngestEvents(vkLogs, gitDiffs, lastUuid) ==
  EventsOfDiffs(gitDiffs, 1, EventsOfLogs(vkLogs, 1, <<>>, lastUuid), lastUuid)

\* ------------------------------------------------------------ event store
\* An insertion that adds a row whatever the table holds.
AppendRow(rows, event) == rows \cup {event}

\* INSERT ... ON CONFLICT(id) DO UPDATE on the events table
insertEvent(rows, event) == {r \in rows : r.id # event.id} \cup {event}

\* The task ids the tasks table holds.
TaskIds(taskRows) == {t.id : t \in taskRows}

\* id: task.id ?? randomUUID()  in upsertTask; lastUuid is the last value
\* randomUUID() has returned.
WithId(task, lastUuid) ==
  IF task.id = NoText THEN [task EXCEPT !.id = <<"uuid", ToString(lastUuid + 1)>>]
  ELSE task

\* INSERT ... ON CONFLICT(id) DO UPDATE on the tasks table
\* A store that keeps only the task written last.
ReplaceTable(rows, task) == {task}

upsertTask(rows, task) == {r \in rows : r.id # task.id} \cup {task}

\* datetime(created_at): the instant cut to whole seconds
datetime(createdAt) == createdAt \div TicksPerSecond

\* options.limit of a call that passes none
NoLimit == [given |-> FALSE, n |-> 0]

\* if (options.limit): undefined and 0 are falsy
Truthy(limit) == limit.given /\ limit.n # 0

\* A WHERE clause that joins the type and the task restriction with OR.
MatchesEither(row, options) ==
  /\ row.createdAt >= options.since
  /\ \/ options.types = <<>> /\ options.taskIds = <<>>
     \/ options.types # <<>> /\ row.type \in Range(options.types)
     \/ options.taskIds # <<>> /\ row.taskId \in Range(options.taskIds)

\* WHERE created_at >= @since [AND type IN (...)] [AND task_id IN (...)]
Matches(row, options) ==
  /\ row.createdAt >= options.since
  /\ options.types # <<>> => row.type \in Range(options.types)
  /\ options.taskIds # <<>> => row.taskId \in Range(options.taskIds)

\* The orders in which ORDER BY datetime(created_at) DESC may return a set
\* of rows: rows of the same second come in an order SQLite does not define.
OrderedByDatetime(matching) ==
  {f \in [1..Cardinality(matching) -> matching] :
     /\ \A i, j \in DOMAIN f : i # j => f[i] # f[j]
     /\ \A i, j \in DOMAIN f : i < j => datetime(f[i].createdAt) >= datetime(f[j].createdAt)}

\* LIMIT @limit, when the clause is there
Capped(rows, limit) ==
  IF Truthy(limit) /\ limit.n < Len(rows) THEN SubSeq(rows, 1, limit.n) ELSE rows

\* listEvents: the results the statement may return for the rows of the table.
listEvents(rows, options) ==
  {Capped(f, options.limit) : f \in OrderedByDatetime({r \in rows : Matches(r, options)})}

\* randomUUID() calls recordSummaries makes for the first n items of a batch
UuidsOfSummaries(batch, n) == Cardinality({i \in 1..n : batch[i].id = NoText})

\* The row recordSummaries inserts for item i of a batch: id: item.id ??
\* randomUUID()
SummaryRow(batch, i, lastUuid) ==
  [id      |-> IF batch[i].id = NoText
               THEN <<"uuid", ToString(lastUuid + UuidsOfSummaries(batch, i))>>
               ELSE batch[i].id,
   taskId  |-> batch[i].taskId,
   summary |-> batch[i].summary]

RECURSIVE recordSummaries(_, _, _, _, _)
\* recordSummaries, items 1..n of the batch: for each item, DELETE FROM
\* summaries WHERE task_id = ? in replace mode, then INSERT ... ON CONFLICT(id)
\* DO UPDATE.
recordSummaries(rows, batch, n, replaceExisting, lastUuid) ==
  IF n = 0 THEN rows
  ELSE LET before == recordSummaries(rows, batch, n - 1, replaceExisting, lastUuid)
           kept   == IF replaceExisting /\ batch[n].taskId # NoText
                     THEN {r \in before : r.taskId # batch[n].taskId}
                     ELSE before
           row    == SummaryRow(batch, n, lastUuid)
       IN  {r \in kept : r.id # row.id} \cup {row}

RECURSIVE InsertAll(_, _, _)
\* events.forEach((event) => this.insertEvent(event)), up to event n
InsertAll(rows, events, n) ==
  IF n = 0 THEN rows ELSE insertEvent(InsertAll(rows, events, n - 1), events[n])

RECURSIVE UpsertAll(_, _, _)
\* tasks.map((task) => this.upsertTask(task)), up to task n
UpsertAll(rows, seeds, n) ==
  IF n = 0 THEN rows ELSE upsertTask(UpsertAll(rows, seeds, n - 1), seeds[n])

\* FOREIGN KEY(task_id) REFERENCES tasks(id): the first event the store
\* rejects, Len(events) + 1 when it accepts them all.
FirstRejected(events, taskRows) ==
  LET bad == {i \in 1..Len(events) :
                events[i].taskId # NoText /\ events[i].taskId \notin {t.id : t \in taskRows}}
  IN  IF bad = {} THEN Len(events) + 1 ELSE CHOOSE i \in bad : \A k \in bad : i <= k

\* ------------------------------------------------------------- task loader
\* collectTasks: the seeds createTaskSeed builds for the manifest entries; an
\* entry without a string id gets `TASK-${randomUUID().slice(0, 8)}`.
\* The shapes of a workspace: .vk missing (and with it the manifest), or
\* present with tasks.json missing, not parsable, or holding the manifest.
Layouts ==
  {[vkDir |-> FALSE, manifest |-> "absent", folders |-> {}]}
    \cup [vkDir : {TRUE}, manifest : {"absent", "malformed", "json"}, folders : {{}}]

FullLayout == [vkDir |-> TRUE, manifest |-> "json", folders |-> {}]

\* A loader that takes the manifest for granted.
ManifestAssumed(shape) == Manifest

\* readFile + JSON.parse of .vk/tasks.json: the entries, none when the catch
\* of collectTasks runs (file missing, or content that does not parse).
TaskEntries(shape) ==
  CASE shape.manifest = "json"  -> Manifest
    [] shape.manifest = "mixed" -> MixedManifest
    [] OTHER                    -> <<>>

collectTasks(manifest, lastUuid) ==
  LET missing(i) == Cardinality({j \in 1..i : manifest[j].id = NoText})
  IN  [i \in 1..Len(manifest) |->
         [id       |-> IF manifest[i].id = NoText
                       THEN <<"TASK-", "uuid", ToString(lastUuid + missing(i))>>
                       ELSE manifest[i].id,
          title    |-> manifest[i].title,
          status   |-> "open",
          priority |-> 3]]

\* randomUUID() calls collectTasks makes for a manifest
UuidsOfTasks(manifest) == Cardinality({j \in 1..Len(manifest) : manifest[j].id = NoText})

\* ------------------------------------------------------------ cursor store
EmptyOffsets == [q \in {} |-> 0]

ZeroCursor ==
  [lastPollIso |-> DEFAULT_SINCE, logOffsets |-> EmptyOffsets, processedCommits |-> <<>>]

\* The cursor file: absent, unparsable, or holding a cursor.
NoFile == [kind |-> Absent, cursor |-> ZeroCursor]
BadFile == [kind |-> Corrupt, cursor |-> ZeroCursor]
FileOf(cursor) == [kind |-> "json", cursor |-> cursor]
\* The file a write of `cursor` leaves when it stops part-way: a prefix of
\* the JSON text, which does not parse.
CutShort(cursor) == [kind |-> Corrupt, cursor |-> cursor]

\* A loader that takes whatever cursor text the file holds.
LoadLenient(file) == file.cursor

\* loadState: the zero cursor when the file is missing or does not parse
loadState(file) == IF file.kind = "json" THEN file.cursor ELSE ZeroCursor

\* saveState: writeFile(stateFile, JSON.stringify(state))
saveState(cursor) == FileOf(cursor)

\* mkdir(path.dirname(stateFile), { recursive: true })
Mkdir(shape) == [shape EXCEPT !.vkDir = TRUE]

\* --------------------------------------------------------------- notifier
\* const DEFAULT_IMMEDIATE_RISK: RiskLevel[] = ["high"]
DEFAULT_IMMEDIATE_RISK == {"high"}

\* options.immediateRiskLevels left out.
NoLevels == [given |-> FALSE, levels |-> {}]

\* The options a caller passes: a field left out is None.
NotifierOptions ==
  [mode                : {None, "slack", "macos"},
   slackToken          : {None, "token"},
   channel             : {None, "C123"},
   immediateRiskLevels : {NoLevels, [given |-> TRUE, levels |-> {"high", "low"}]}]

\* constructor: the defaults of the options left out.
Resolved(options, autoStart) ==
  [mode                |-> IF options.mode = None THEN "slack" ELSE options.mode,
   slackToken          |-> options.slackToken,
   channel             |-> options.channel,
   immediateRiskLevels |-> IF options.immediateRiskLevels.given
                           THEN options.immediateRiskLevels.levels
                           ELSE DEFAULT_IMMEDIATE_RISK,
   autoStart           |-> autoStart]

\* No notifier has been constructed.
NoNotifier ==
  [made |-> FALSE, options |-> Resolved([mode |-> None, slackToken |-> None,
                                         channel |-> None, immediateRiskLevels |-> NoLevels],
                                        FALSE),
   pending |-> <<>>, timer |-> FALSE, owner |-> "caller"]

\* The last operation was handed no summary.
NoSummary == [given |-> FALSE, items |-> <<>>]

\* What the surroundings do to one dispatch: the platform of the process,
\* and whether the transport (osascript, or the Slack API) reports success.
Surroundings == [platform : {"darwin", "linux"}, ok : BOOLEAN]

\* postToMacOs: the notification; nothing is sent to Slack.
postToMacOs(payload, env) ==
  [notification |->
     [channel    |-> "macos",
      type       |-> payload.type,
      status     |-> IF env.platform # "darwin" THEN "skipped"
                     ELSE IF env.ok THEN "sent" ELSE "failed",
      summaryIds |-> payload.summaryIds],
   requests |-> <<>>]

\* postToSlack: skipped without a request unless token and channel are set.
postToSlack(options, payload, env) ==
  LET channel == IF options.channel = None THEN "stdout" ELSE options.channel
  IN  IF options.slackToken = None \/ options.channel = None
      THEN [notification |-> [channel |-> channel, type |-> payload.type,
                              status |-> "skipped", summaryIds |-> payload.summaryIds],
            requests |-> <<>>]
      ELSE [notification |-> [channel |-> channel, type |-> payload.type,
                              status |-> IF env.ok THEN "sent" ELSE "failed",
                              summaryIds |-> payload.summaryIds],
            requests |-> <<[channel |-> options.channel, token |-> options.slackToken]>>]

\* A notifier that posts to Slack whenever it holds credentials.
DispatchByCredentials(options, payload, env) ==
  IF options.slackToken # None /\ options.channel # None
  THEN postToSlack(options, payload, env)
  ELSE postToMacOs(payload, env)

\* dispatchNotification: if (this.options.mode === "macos") postToMacOs(...)
dispatchNotification(options, payload, env) ==
  IF options.mode = "macos"
  THEN postToMacOs(payload, env)
  ELSE postToSlack(options, payload, env)

\* A notifier that alerts on the first immediate item only.
FirstImmediateOnly(items, levels) ==
  LET all == SelectSeq(items, LAMBDA item : item.risk \in levels)
  IN  IF all = <<>> THEN <<>> ELSE <<all[1]>>

\* summary.items.filter((item) => immediateRiskLevels.includes(item.risk))
ImmediateItems(items, levels) == SelectSeq(items, LAMBDA item : item.risk \in levels)

\* enqueue: the summary joins the queue, one immediate alert is dispatched
\* per immediate item, in item order; envs[i] is what happens to dispatch i.
enqueue(this, summary, envs) ==
  LET immediate == ImmediateItems(summary, this.options.immediateRiskLevels)
      sent == [i \in 1..Len(immediate) |->
                 dispatchNotification(this.options,
                   [type |-> "immediate", summaryIds |-> <<immediate[i].id>>], envs[i])]
  IN  [this          |-> [this EXCEPT !.pending = Append(@, summary)],
       notifications |-> [i \in 1..Len(sent) |-> sent[i].notification],
       requests      |-> LET posted == SelectSeq(sent, LAMBDA x : x.requests # <<>>)
                         IN  [i \in 1..Len(posted) |-> posted[i].requests[1]]]

RECURSIVE FlatItems(_)
\* batches.flatMap((entry) => entry.summary.items)
FlatItems(batches) ==
  IF batches = <<>> THEN <<>>
  ELSE FlatItems(SubSeq(batches, 1, Len(batches) - 1)) \o batches[Len(batches)]

\* flush: null on an empty queue; otherwise the queue is emptied and one
\* batch notification is dispatched for all the items it held.
flush(this, env) ==
  IF this.pending = <<>>
  THEN [this |-> this, notifications |-> <<>>, requests |-> <<>>]
  ELSE LET items == FlatItems(this.pending)
           sent  == dispatchNotification(this.options,
                      [type |-> "batch",
                       summaryIds |-> [i \in 1..Len(items) |-> items[i].id]], env)
       IN  [this          |-> [this EXCEPT !.pending = <<>>],
            notifications |-> <<sent.notification>>,
            requests      |-> sent.requests]

\* emit: enqueue, and without autoStart flush at once.
emit(this, summary, envs, env) ==
  LET queued  == enqueue(this, summary, envs)
      flushed == flush(queued.this, env)
  IN  IF ~this.options.autoStart
      THEN [this          |-> flushed.this,
            notifications |-> queued.notifications \o flushed.notifications,
            requests      |-> queued.requests \o flushed.requests]
      ELSE queued

\* -------------------------------------------------------------- the system
VARIABLES
  files,        \* workspace: content of each log file
  repo,         \* workspace: the commits of the history, oldest first
  clock,        \* the wall clock
  stateFile,    \* .vk/events-collector-state.json
  events,       \* events.db: rows of the events table
  tasks,        \* events.db: rows of the tasks table
  uuid,         \* the last value randomUUID() returned
  phase,        \* where handleCollect is: down, first, interval, shutdown, returned, exited
  runOnce,      \* options.runOnce of the running process
  state,        \* the cursor object `state` of handleCollect
  polls,        \* the invocations of poll(): position and locals of each
  pollPromise,  \* the poll `pollPromise` holds, 0 for null
  timer,        \* intervalHandle is set and not cleared
  handlers,     \* signals that still have their process.once listener
  waiters,      \* shutdown() calls suspended in `await pollPromise`: <<signal, poll>>
  closeCalls,   \* calls of ingestor.close() by the running process
  starts,       \* history: process starts so far
  pollsStarted, \* history: polls started so far
  lastOutcome,  \* history: how the last poll to end ended
  pollStart,    \* history: the cursor the last started poll started from
  exitCause,    \* history: why the process last ended
  abandoned,    \* history: a poll was in flight when the process ended
  summaries,    \* events.db: rows of the summaries table
  listed,       \* the last call of listEvents: its options and what it returned
  layout,       \* workspace: whether .vk exists and what .vk/tasks.json is
  parsedLog,    \* the last call of parseVKLog: its argument and what it returned
  parsedDiff,   \* the last call of parseGitDiff: its argument and what it returned
  prepared,     \* the last call of prepareRepository: its options, what the
                \* steps it ran met, and how it ended
  notifier,     \* the SlackDigestNotifier made last: options, queue, timer, who holds it
  returned,     \* the notifications the last notifier operation returned
  wire,         \* the requests the last notifier operation sent to Slack
  handed        \* the summary the last notifier operation was handed, if any

vars == <<files, repo, clock, stateFile, events, tasks, uuid, phase, runOnce, state,
          polls, pollPromise, timer, handlers, waiters, closeCalls, starts,
          pollsStarted, lastOutcome, pollStart, exitCause, abandoned,
          summaries, listed, layout, parsedLog, parsedDiff, prepared, notifier,
          returned, wire, handed>>

envVars == <<files, repo, clock, layout>>
diskVars == <<stateFile, events, tasks>>
loopVars == <<phase, timer, handlers, pollPromise, waiters, closeCalls, exitCause, abandoned>>
notifierVars == <<notifier, returned, wire, handed>>
libVars == <<parsedLog, parsedDiff, prepared, notifierVars>>
apiVars == <<summaries, listed, libVars>>

PollSlots == 1..MaxPolls
Signals == {"SIGINT", "SIGTERM"}
Running == {"first", "interval", "shutdown"}

IdlePoll ==
  [pc |-> "none", since |-> 0, nowIso |-> 0, logs |-> <<>>, diffs |-> <<>>, tasks |-> <<>>,
   warned |-> <<>>]

InFlight == {p \in PollSlots : polls[p].pc # "none"}

\* No call of parseVKLog has been made.
NoParse ==
  [made |-> FALSE, log |-> [content |-> <<>>, source |-> None, receivedAt |-> 0],
   events |-> <<>>]

\* No call of prepareRepository has been made.
NoPrepareCall ==
  [made    |-> FALSE,
   options |-> [runProbe |-> "unset", requireProbeSuccess |-> "unset",
                cleanWorktrees |-> FALSE, cleanClones |-> FALSE],
   world   |-> [bare |-> TRUE, cleanup |-> TRUE, touchBase |-> TRUE, worktree |-> TRUE,
                about |-> 0, headCommit |-> 0, touchTree |-> TRUE, clone |-> TRUE,
                touchClone |-> TRUE],
   result  |-> [kind |-> "none", mode |-> "none", by |-> "none", probeRun |-> FALSE,
                probeOk |-> FALSE]]

\* No call of parseGitDiff has been made.
NoDiffCall ==
  [made |-> FALSE, files |-> <<>>, diff |-> [content |-> <<>>, capturedAt |-> 0],
   parsed |-> <<>>]

\* No call of listEvents has been made.
NoCall ==
  [made    |-> FALSE,
   options |-> [since |-> 0, types |-> <<>>, taskIds |-> <<>>, limit |-> NoLimit],
   rows    |-> <<>>]

Init ==
  /\ files = [p \in Paths |-> <<>>]
  /\ repo = <<>>
  /\ clock = 0
  /\ stateFile = NoFile
  /\ events = {}
  /\ tasks = {}
  /\ uuid = 0
  /\ phase = "down"
  /\ runOnce = FALSE
  /\ state = ZeroCursor
  /\ polls = [p \in PollSlots |-> IdlePoll]
  /\ pollPromise = 0
  /\ timer = FALSE
  /\ handlers = {}
  /\ waiters = {}
  /\ closeCalls = 0
  /\ starts = 0
  /\ pollsStarted = 0
  /\ lastOutcome = "none"
  /\ pollStart = ZeroCursor
  /\ exitCause = None
  /\ abandoned = FALSE
  /\ summaries = {}
  /\ listed = NoCall
  /\ layout = FullLayout
  /\ parsedLog = NoParse
  /\ parsedDiff = NoDiffCall
  /\ prepared = NoPrepareCall
  /\ notifier = NoNotifier
  /\ returned = <<>>
  /\ wire = <<>>
  /\ handed = NoSummary

\* ------------------------------------------------------------ environment
\* The agent appends a line to its log.
AppendLine ==
  \E l \in LineTexts :
    /\ layout.vkDir
    /\ Len(files[LogPath]) + Len(l) + 1 <= MaxFileLen
    /\ files' = [files EXCEPT ![LogPath] = @ \o l \o <<"\n">>]
    /\ UNCHANGED <<repo, clock, layout, stateFile, events, tasks, uuid, phase, runOnce, state,
                   polls, pollPromise, timer, handlers, waiters, closeCalls, starts,
                   pollsStarted, lastOutcome, pollStart, exitCause, abandoned>>
    /\ UNCHANGED apiVars

\* The agent appends a line of any kind to its log.
AppendText ==
  \E l \in TailTexts :
    /\ layout.vkDir
    /\ Len(files[LogPath]) + Len(l) + 1 <= MaxFileLen
    /\ files' = [files EXCEPT ![LogPath] = @ \o l \o <<"\n">>]
    /\ UNCHANGED <<repo, clock, layout, stateFile, events, tasks, uuid, phase, runOnce, state,
                   polls, pollPromise, timer, handlers, waiters, closeCalls, starts,
                   pollsStarted, lastOutcome, pollStart, exitCause, abandoned>>
    /\ UNCHANGED apiVars

\* The log is rotated: the agent starts an empty file under the same name.
Rotate ==
  /\ files[LogPath] # <<>>
  /\ files' = [files EXCEPT ![LogPath] = <<>>]
  /\ UNCHANGED <<repo, clock, layout, stateFile, events, tasks, uuid, phase, runOnce, state,
                 polls, pollPromise, timer, handlers, waiters, closeCalls, starts,
                 pollsStarted, lastOutcome, pollStart, exitCause, abandoned>>
  /\ UNCHANGED apiVars

\* A developer commits; the commit carries the current time.
Commit ==
  /\ Len(repo) < Len(Shas)
  /\ repo' = Append(repo, [sha |-> Shas[Len(repo) + 1], time |-> clock])
  /\ UNCHANGED <<files, clock, layout, stateFile, events, tasks, uuid, phase, runOnce, state,
                 polls, pollPromise, timer, handlers, waiters, closeCalls, starts,
                 pollsStarted, lastOutcome, pollStart, exitCause, abandoned>>
  /\ UNCHANGED apiVars

\* Time passes.
Tick ==
  /\ clock < MaxClock
  /\ clock' = clock + 1
  /\ UNCHANGED <<files, repo, layout, stateFile, events, tasks, uuid, phase, runOnce, state,
                 polls, pollPromise, timer, handlers, waiters, closeCalls, starts,
                 pollsStarted, lastOutcome, pollStart, exitCause, abandoned>>
  /\ UNCHANGED apiVars

\* `git log --since=<since> --pretty=format:%H`: newest first
gitLog(history, since) ==
  LET kept == SelectSeq(history, LAMBDA c : c.time >= since)
  IN  Reverse([i \in 1..Len(kept) |-> kept[i].sha])

\* ------------------------------------------------------------ handleCollect
\* const since = state.lastPollIso ?? DEFAULT_SINCE; const nowIso = new Date()
NewPoll(cursor) ==
  [pc |-> "tail", since |-> cursor.lastPollIso, nowIso |-> clock,
   logs |-> <<>>, diffs |-> <<>>, tasks |-> <<>>, warned |-> <<>>]

NoPolls == [q \in PollSlots |-> IdlePoll]

\* A handleCollect that ignores options.runOnce.
IgnoreRunOnce == FALSE

\* if (options.runOnce)
RunOnceMode == runOnce

\* A schedulePoll without its guard.
NoGuard == FALSE

\* if (pollPromise) return;  in schedulePoll
PollInFlight == pollPromise # 0

\* The process starts: new Ingestor, loadState, and `await poll()` runs poll
\* up to its first await.
Start(once) ==
  /\ phase \in {"down", "returned", "exited"}
  /\ starts < MaxStarts
  /\ pollsStarted < MaxPolls
  /\ starts' = starts + 1
  /\ pollsStarted' = pollsStarted + 1
  /\ runOnce' = once
  /\ state' = loadState(stateFile)
  /\ pollStart' = loadState(stateFile)
  /\ polls' = [NoPolls EXCEPT ![pollsStarted + 1] = NewPoll(loadState(stateFile))]
  /\ phase' = "first"
  /\ lastOutcome' = "running"
  /\ closeCalls' = 0
  /\ exitCause' = None
  /\ abandoned' = FALSE
  /\ pollPromise' = 0
  /\ timer' = FALSE
  /\ handlers' = {}
  /\ waiters' = {}
  /\ UNCHANGED <<files, repo, clock, layout, stateFile, events, tasks, uuid>>
  /\ UNCHANGED apiVars

\* poll p has ended (its try block completed or its catch ran) leaving the
\* cursor object as `cursor`; what runs next without a further event: the
\* code after `await poll()` for the first poll, the finally callback of
\* schedulePoll and the shutdown() calls waiting for the poll otherwise.
Settle(p, outcome, cursor) ==
  LET resumed == {w \in waiters : w[2] = p}
  IN  /\ lastOutcome' = outcome
      /\ CASE phase = "first" /\ RunOnceMode ->
                /\ phase' = "returned"
                /\ closeCalls' = closeCalls + 1
                /\ state' = ZeroCursor
                /\ polls' = NoPolls
                /\ UNCHANGED <<timer, handlers, pollPromise, waiters, exitCause, abandoned>>
           [] phase = "first" /\ ~RunOnceMode ->
                /\ phase' = "interval"
                /\ timer' = TRUE
                /\ handlers' = Signals
                /\ state' = cursor
                /\ polls' = [polls EXCEPT ![p] = IdlePoll]
                /\ UNCHANGED <<closeCalls, pollPromise, waiters, exitCause, abandoned>>
           [] phase # "first" /\ resumed = {} ->
                /\ pollPromise' = 0
                /\ state' = cursor
                /\ polls' = [polls EXCEPT ![p] = IdlePoll]
                /\ UNCHANGED <<phase, timer, handlers, waiters, closeCalls, exitCause, abandoned>>
           [] phase # "first" /\ resumed # {} ->
                /\ pollPromise' = 0
                /\ closeCalls' = closeCalls + Cardinality(resumed)
                /\ phase' = "exited"
                /\ exitCause' = "signal"
                /\ abandoned' = (InFlight \ {p} # {})
                /\ state' = ZeroCursor
                /\ polls' = NoPolls
                /\ timer' = FALSE
                /\ handlers' = {}
                /\ waiters' = {}

\* collectVKLogs returns; state.logOffsets = logResult.offsets
PollTail(p) ==
  /\ polls[p].pc = "tail"
  /\ LET r == collectVKLogs(state.logOffsets, files, polls[p].nowIso, layout)
     IN  /\ state' = [state EXCEPT !.logOffsets = r.offsets]
         /\ polls' = [polls EXCEPT ![p].logs = r.logs, ![p].pc = "git"]
  /\ UNCHANGED <<envVars, diskVars, loopVars, uuid, runOnce, starts, pollsStarted,
                 lastOutcome, pollStart>>
  /\ UNCHANGED apiVars

\* collectVKLogs throws (readdir or readFile fails): the catch of poll runs
PollTailFail(p) ==
  /\ polls[p].pc = "tail"
  /\ Settle(p, "failed", state)
  /\ UNCHANGED <<envVars, diskVars, uuid, runOnce, starts, pollsStarted, pollStart>>
  /\ UNCHANGED apiVars

\* collectGitDiffs returns; state.processedCommits = gitResult.processedCommits
PollGitWith(p, listing, fetchable) ==
  /\ polls[p].pc = "git"
  /\ LET r == collectGitDiffs(state.processedCommits, listing, fetchable, polls[p].nowIso)
     IN  /\ state' = [state EXCEPT !.processedCommits = r.processedCommits]
         /\ polls' = [polls EXCEPT ![p].diffs = r.diffs, ![p].warned = r.warned,
                                   ![p].pc = "tasks"]
  /\ UNCHANGED <<envVars, diskVars, loopVars, uuid, runOnce, starts, pollsStarted,
                 lastOutcome, pollStart>>
  /\ UNCHANGED apiVars

\* `git log` fails or lists the commits since the last poll; `git show`
\* succeeds for any part of the listed commits.
PollGit(p) ==
  \E listing \in {GitFailed, GitListed(gitLog(repo, polls[p].since))} :
    \E fetchable \in SUBSET Range(listing.stdout) :
      PollGitWith(p, listing, fetchable)

\* collectTasks returns (it catches every error itself)
PollTasks(p) ==
  /\ polls[p].pc = "tasks"
  /\ polls' = [polls EXCEPT ![p].tasks = collectTasks(TaskEntries(layout), uuid),
                            ![p].pc = "ingest"]
  /\ uuid' = uuid + UuidsOfTasks(TaskEntries(layout))
  /\ UNCHANGED <<envVars, diskVars, loopVars, state, runOnce, starts, pollsStarted,
                 lastOutcome, pollStart>>
  /\ UNCHANGED apiVars

\* ingestor.ingest returns: every task upserted, every event inserted
PollIngest(p) ==
  /\ polls[p].pc = "ingest"
  /\ LET evs   == IngestEvents(polls[p].logs, polls[p].diffs, uuid)
         seeds == polls[p].tasks
         rows  == UpsertAll(tasks, seeds, Len(seeds))
     IN  /\ FirstRejected(evs, rows) > Len(evs)
         /\ uuid' = uuid + Len(evs)
         /\ tasks' = rows
         /\ events' = InsertAll(events, evs, Len(evs))
  /\ polls' = [polls EXCEPT ![p].pc = "save"]
  /\ UNCHANGED <<envVars, loopVars, stateFile, state, runOnce, starts, pollsStarted,
                 lastOutcome, pollStart>>
  /\ UNCHANGED apiVars

\* ingestor.ingest throws after it has inserted the first k events (the store
\* rejects an event, or the database fails): the catch of poll runs
PollIngestFail(p) ==
  /\ polls[p].pc = "ingest"
  /\ LET evs   == IngestEvents(polls[p].logs, polls[p].diffs, uuid)
         seeds == polls[p].tasks
         rows  == UpsertAll(tasks, seeds, Len(seeds))
     IN  /\ uuid' = uuid + Len(evs)
         /\ tasks' = rows
         /\ \E k \in 0..Len(evs) :
              /\ k < FirstRejected(evs, rows)
              /\ events' = InsertAll(events, evs, k)
  /\ Settle(p, "failed", state)
  /\ UNCHANGED <<envVars, stateFile, runOnce, starts, pollsStarted, pollStart>>
  /\ UNCHANGED apiVars

\* state.lastPollIso = nowIso; await saveState(stateFile, state)
PollSave(p) ==
  /\ polls[p].pc = "save"
  /\ layout' = Mkdir(layout)
  /\ stateFile' = saveState([state EXCEPT !.lastPollIso = polls[p].nowIso])
  /\ Settle(p, "ok", [state EXCEPT !.lastPollIso = polls[p].nowIso])
  /\ UNCHANGED <<files, repo, clock, events, tasks, uuid, runOnce, starts, pollsStarted,
                 pollStart>>
  /\ UNCHANGED apiVars

\* state.lastPollIso = nowIso; saveState throws, the file as it was or cut
\* short by the failed write: the catch of poll runs
PollSaveFail(p) ==
  /\ polls[p].pc = "save"
  /\ stateFile' \in {stateFile, BadFile,
                      CutShort([state EXCEPT !.lastPollIso = polls[p].nowIso])}
  /\ layout' \in {layout, Mkdir(layout)}
  /\ stateFile'.kind # Absent => layout'.vkDir
  /\ Settle(p, "failed", [state EXCEPT !.lastPollIso = polls[p].nowIso])
  /\ UNCHANGED <<files, repo, clock, events, tasks, uuid, runOnce, starts, pollsStarted,
                 pollStart>>
  /\ UNCHANGED apiVars

\* ------------------------------------------------------------- store API
\* The task the manifest of the workspace names.
DemoTask == Manifest[1].id

\* The events a caller hands to insertEvent.
ApiEvents ==
  [id        : 1..MaxEventIds,
   type      : {"vk_log", "git_diff"},
   source    : {"api"},
   message   : {<<"m">>},
   createdAt : {0, 1},
   taskId    : {NoText, DemoTask},
   commit    : {None},
   filePath  : {NoText}]

\* The tasks a caller hands to upsertTask, with an id or without.
ApiTasks ==
  [id       : {NoText, DemoTask, <<"TASK-", "7">>},
   title    : {"Demo task", "Renamed"},
   status   : {"open"},
   priority : {3}]

\* FOREIGN KEY(task_id) REFERENCES tasks(id) for one event
TaskKnown(event, taskRows) ==
  event.taskId = NoText \/ event.taskId \in TaskIds(taskRows)

\* insertEvent(event) returns; when the store rejects the row the statement
\* throws and the table is as before.
InsertEvent(event) ==
  /\ phase \notin Running
  /\ TaskKnown(event, tasks)
  /\ events' = insertEvent(events, event)
  /\ UNCHANGED <<envVars, stateFile, tasks, uuid, loopVars, runOnce, state, polls,
                 starts, pollsStarted, lastOutcome, pollStart, apiVars>>

\* upsertTask(task) returns
UpsertTask(task) ==
  /\ phase \notin Running
  /\ task.id = NoText => uuid < MaxGenerated
  /\ tasks' = upsertTask(tasks, WithId(task, uuid))
  /\ uuid' = IF task.id = NoText THEN uuid + 1 ELSE uuid
  /\ UNCHANGED <<envVars, stateFile, events, loopVars, runOnce, state, polls,
                 starts, pollsStarted, lastOutcome, pollStart, apiVars>>

\* The events of the store that is queried: event i was created at tick i - 1,
\* odd ones come from the log, the second and third of every four name a task.
QueryEvents ==
  {[id        |-> i,
    type      |-> IF i % 2 = 1 THEN "vk_log" ELSE "git_diff",
    source    |-> "api",
    message   |-> <<"m">>,
    createdAt |-> i - 1,
    taskId    |-> IF (i \div 2) % 2 = 1 THEN DemoTask ELSE NoText,
    commit    |-> None,
    filePath  |-> NoText] : i \in 1..MaxListed}

\* The task the queried events name.
DemoSeed == [id |-> DemoTask, title |-> "Demo task", status |-> "open", priority |-> 3]

\* The options a caller passes to listEvents.
Queries ==
  [since   : {0, 1, 2},
   types   : {<<>>, <<"vk_log">>, <<"git_diff">>, <<"vk_log", "git_diff">>},
   taskIds : {<<>>, <<DemoTask>>},
   limit   : {NoLimit} \cup [given : {TRUE}, n : 0..MaxLimit]]

\* listEvents(options) returns
ListEvents(options) ==
  /\ phase \notin Running
  /\ \E rows \in listEvents(events, options) :
       listed' = [made |-> TRUE, options |-> options, rows |-> rows]
  /\ UNCHANGED <<envVars, diskVars, uuid, loopVars, runOnce, state, polls,
                 starts, pollsStarted, lastOutcome, pollStart, summaries, libVars>>

\* A second task of the store.
OtherSeed ==
  [id |-> <<"TASK-", "7">>, title |-> "Other task", status |-> "open", priority |-> 3]

\* The summaries a caller hands to recordSummaries, with an id or without.
SummaryItems ==
  [id      : {NoText, <<"s1">>, <<"s2">>},
   taskId  : {DemoTask, OtherSeed.id},
   summary : {"first", "second"}]

\* The batches a caller passes: one summary or two.
Batches == {<<a>> : a \in SummaryItems} \cup {<<a, b>> : a, b \in SummaryItems}

\* recordSummaries(batch, {replaceExisting}) returns: every item names a task
\* of the store, so that no insertion is rejected.
RecordSummaries(batch, replaceExisting) ==
  /\ phase \notin Running
  /\ \A i \in 1..Len(batch) : batch[i].taskId \in TaskIds(tasks)
  /\ uuid + UuidsOfSummaries(batch, Len(batch)) <= MaxGenerated
  /\ summaries' = recordSummaries(summaries, batch, Len(batch), replaceExisting, uuid)
  /\ uuid' = uuid + UuidsOfSummaries(batch, Len(batch))
  /\ UNCHANGED <<envVars, diskVars, loopVars, runOnce, state, polls,
                 starts, pollsStarted, lastOutcome, pollStart, listed, libVars>>

\* state.lastPollIso = nowIso; the process dies while writeFile runs: the
\* file is as it was, emptied, written in part, or written in full.
PollSaveCrash(p) ==
  /\ polls[p].pc = "save"
  /\ stateFile' \in {stateFile, BadFile,
                      CutShort([state EXCEPT !.lastPollIso = polls[p].nowIso]),
                      FileOf([state EXCEPT !.lastPollIso = polls[p].nowIso])}
  /\ layout' \in {layout, Mkdir(layout)}
  /\ stateFile'.kind # Absent => layout'.vkDir
  /\ phase' = "down"
  /\ exitCause' = "crash"
  /\ abandoned' = TRUE
  /\ state' = ZeroCursor
  /\ polls' = NoPolls
  /\ pollPromise' = 0
  /\ timer' = FALSE
  /\ handlers' = {}
  /\ waiters' = {}
  /\ UNCHANGED <<files, repo, clock, events, tasks, uuid, runOnce, closeCalls, starts,
                 pollsStarted, lastOutcome, pollStart, apiVars>>

\* The interval fires: schedulePoll()
TimerTick ==
  /\ phase = "interval"
  /\ timer
  /\ IF PollInFlight
     THEN UNCHANGED vars
     ELSE /\ pollsStarted < MaxPolls
          /\ pollsStarted' = pollsStarted + 1
          /\ polls' = [polls EXCEPT ![pollsStarted + 1] = NewPoll(state)]
          /\ pollPromise' = pollsStarted + 1
          /\ pollStart' = state
          /\ lastOutcome' = "running"
          /\ UNCHANGED <<envVars, diskVars, uuid, runOnce, state, phase, timer, handlers,
                         waiters, closeCalls, exitCause, abandoned, starts>>
  /\ UNCHANGED apiVars

\* SIGINT or SIGTERM arrives.  With its once-listener registered handleSignal
\* runs shutdown(); without one the signal ends the process at once.
Signal(sig) ==
  /\ phase \in Running
  /\ IF sig \in handlers
     THEN IF pollPromise # 0
          THEN /\ handlers' = handlers \ {sig}
               /\ timer' = FALSE
               /\ waiters' = waiters \cup {<<sig, pollPromise>>}
               /\ phase' = "shutdown"
               /\ UNCHANGED <<state, polls, pollPromise, closeCalls, exitCause, abandoned>>
          ELSE /\ closeCalls' = closeCalls + 1
               /\ phase' = "exited"
               /\ exitCause' = "signal"
               /\ abandoned' = (InFlight # {})
               /\ state' = ZeroCursor
               /\ polls' = NoPolls
               /\ pollPromise' = 0
               /\ timer' = FALSE
               /\ handlers' = {}
               /\ waiters' = {}
     ELSE /\ phase' = "exited"
          /\ exitCause' = "signal"
          /\ abandoned' = (InFlight # {})
          /\ state' = ZeroCursor
          /\ polls' = NoPolls
          /\ pollPromise' = 0
          /\ timer' = FALSE
          /\ handlers' = {}
          /\ waiters' = {}
          /\ UNCHANGED closeCalls
  /\ UNCHANGED <<envVars, diskVars, uuid, runOnce, starts, pollsStarted, lastOutcome,
                 pollStart>>
  /\ UNCHANGED apiVars

\* The process dies (SIGKILL, power loss): its memory is gone, the files stay.
Crash ==
  /\ phase \in Running
  /\ phase' = "down"
  /\ exitCause' = "crash"
  /\ abandoned' = (InFlight # {})
  /\ state' = ZeroCursor
  /\ polls' = NoPolls
  /\ pollPromise' = 0
  /\ timer' = FALSE
  /\ handlers' = {}
  /\ waiters' = {}
  /\ UNCHANGED <<envVars, diskVars, uuid, runOnce, closeCalls, starts, pollsStarted,
                 lastOutcome, pollStart>>
  /\ UNCHANGED apiVars

\* One step of poll p.
Poll(p) ==
  \/ PollTail(p)
  \/ PollTailFail(p)
  \/ PollGit(p)
  \/ PollTasks(p)
  \/ PollIngest(p)
  \/ PollIngestFail(p)
  \/ PollSave(p)
  \/ PollSaveFail(p)

\* One step of poll p when none of its awaits rejects.
PollResolved(p) ==
  \/ PollTail(p)
  \/ PollGit(p)
  \/ PollTasks(p)
  \/ PollIngest(p)
  \/ PollSave(p)

\* The workspace changes only while a collector runs or can still be started:
\* what happens after the last run is seen by nobody.
Live == phase \in Running \/ starts < MaxStarts

\* The whole system.
Next ==
  \/ Live /\ AppendLine
  \/ Live /\ Commit
  \/ Live /\ Tick
  \/ \E once \in BOOLEAN : Start(once)
  \/ TimerTick
  \/ \E sig \in Signals : Signal(sig)
  \/ Crash
  \/ \E p \in PollSlots : Poll(p)

Spec == Init /\ [][Next]_vars

\* The collector over a workspace where nothing happens: the control flow of
\* handleCollect under every order of ticks, signals, crashes and restarts.
NextLoop ==
  \/ \E once \in BOOLEAN : Start(once)
  \/ TimerTick
  \/ \E sig \in Signals : Signal(sig)
  \/ Crash
  \/ \E p \in PollSlots : Poll(p)

SpecLoop == Init /\ [][NextLoop]_vars

\* The collector in interval mode over a workspace whose agent log grows,
\* with crashes and restarts.
NextLogs ==
  \/ Live /\ AppendLine
  \/ Start(FALSE)
  \/ TimerTick
  \/ Crash
  \/ \E p \in PollSlots : Poll(p)
  \/ \E p \in PollSlots : PollSaveCrash(p)

SpecLogs == Init /\ [][NextLogs]_vars

\* The collector in interval mode over a workspace that receives commits,
\* polled again before the clock moves on; the process may be killed at any
\* point and restarted, and `git log` and `git show` may fail.
NextGit ==
  \/ Live /\ Commit
  \/ Start(FALSE)
  \/ TimerTick
  \/ Crash
  \/ \E p \in PollSlots : PollResolved(p)

SpecGit == Init /\ [][NextGit]_vars

\* `collect --once` over a workspace whose log grows and in which commits
\* land: every run is one poll, and every poll completes.
NextOnce ==
  \/ Live /\ AppendLine
  \/ Live /\ Commit
  \/ Start(TRUE)
  \/ \E p \in PollSlots : PollResolved(p)

SpecOnce == Init /\ [][NextOnce]_vars

\* The free-form lines a caller hands to parseVKLog, by their parts: what
\* precedes the candidate token, its word, its separator, its digits, and
\* what follows.  `lead` are the digits the rest starts with and `token` the
\* digits of a token the rest holds in full.
TokenPrefixes == {<<>>, <<"x", " ">>, <<"T", "A", "S", "K", "-", "1", " ">>}
TokenNames ==
  {<<"T", "A", "S", "K">>, <<"t", "a", "s", "k">>, <<"I", "s", "s", "u", "e">>,
   <<"B", "U", "G">>, <<"T", "A", "S">>, <<"T", "A", "S", "K", "S">>}
TokenSeps == {<<>>, <<"-">>, <<"#">>, <<"_">>}
TokenDigits ==
  {<<>>, <<"1">>, <<"1", "2">>, <<"1", "2", "3", "4">>, <<"1", "2", "3", "4", "5", "6">>}
TokenRests ==
  {[text |-> <<>>, lead |-> <<>>, token |-> <<>>],
   [text |-> <<" ", "r", "e", "g">>, lead |-> <<>>, token |-> <<>>],
   [text |-> <<"7">>, lead |-> <<"7">>, token |-> <<>>],
   [text |-> <<" ", "b", "u", "g", "#", "7", "7">>, lead |-> <<>>, token |-> <<"7", "7">>]}

LinePieces ==
  [prefix : TokenPrefixes, name : TokenNames, sep : TokenSeps, digits : TokenDigits,
   rest : TokenRests]

LineOf(pieces) ==
  pieces.prefix \o pieces.name \o pieces.sep \o pieces.digits \o pieces.rest.text

\* parseVKLog(log) returns, for a log of one line; one call is
\* followed per behaviour.
ParseVKLog(log) ==
  /\ phase = "down"
  /\ ~parsedLog.made
  /\ Trim(log.content)[1] \notin Digits
  /\ parsedLog' = [made |-> TRUE, log |-> log, events |-> parseVKLog(log)]
  /\ UNCHANGED <<envVars, diskVars, loopVars, uuid, runOnce, state, polls,
                 starts, pollsStarted, lastOutcome, pollStart, summaries, listed,
                 parsedDiff, prepared, notifierVars>>

\* The diffs a caller hands to parseGitDiff, by their files: each file has
\* its header, with or without the ---/+++ pair, and its content lines, each
\* an added, a removed or a context line of some text.
ContentLines ==
  {[mark |-> "+", text |-> <<"x">>], [mark |-> "+", text |-> <<"+", "+", "z">>],
   [mark |-> "-", text |-> <<"x">>], [mark |-> "-", text |-> <<"-", "-", "z">>],
   [mark |-> " ", text |-> <<"x">>]}
MaxHunkLines == 2
FirstFiles ==
  [path : {F1}, pair : BOOLEAN,
   lines : UNION {[1..n -> ContentLines] : n \in 0..MaxHunkLines}]
SecondFiles ==
  [path : {F1, F2}, pair : {TRUE},
   lines : {<<>>} \cup {<<l>> : l \in ContentLines}]
DiffFiles == {<<f>> : f \in FirstFiles} \cup (FirstFiles \X SecondFiles)

RECURSIVE HunkText(_, _)
HunkText(lines, i) ==
  IF i > Len(lines) THEN <<>>
  ELSE <<lines[i].mark>> \o lines[i].text \o <<"\n">> \o HunkText(lines, i + 1)

\* What `git show --patch` prints for one file.
FileText(f) ==
  HeaderLine(f.path)
    \o (IF f.pair THEN OldFileLine(f.path) \o NewFileLine(f.path) ELSE <<>>)
    \o <<"@", "@", "\n">> \o HunkText(f.lines, 1)

RECURSIVE DiffText(_, _)
DiffText(fs, i) == IF i > Len(fs) THEN <<>> ELSE FileText(fs[i]) \o DiffText(fs, i + 1)

\* parseGitDiff(diff) returns; one call is followed per behaviour.
ParseGitDiff(fs) ==
  /\ phase = "down"
  /\ ~parsedDiff.made
  /\ parsedDiff' =
       [made   |-> TRUE,
        files  |-> fs,
        diff   |-> [content |-> DiffText(fs, 1), capturedAt |-> clock],
        parsed |-> parseGitDiff([content |-> DiffText(fs, 1), capturedAt |-> clock])]
  /\ UNCHANGED <<envVars, diskVars, loopVars, uuid, runOnce, state, polls,
                 starts, pollsStarted, lastOutcome, pollStart, summaries, listed,
                 parsedLog, prepared, notifierVars>>

\* Callers of parseGitDiff at any time of the clock.
NextDiff ==
  \/ \E fs \in DiffFiles : ParseGitDiff(fs)
  \/ phase = "down" /\ Tick

SpecDiff == Init /\ [][NextDiff]_vars

\* The bracketed lines a caller hands to parseVKLog, by their parts.
StampTexts == {ParsedStamp, <<"n", "o", "w">>}
AuthorTexts == {<<"b", "o", "t">>, <<"b", "u", "g", "7", "7">>, <<"A", "l", " ">>}
SeverityTexts == {<<>>, <<"|", "E", "R", "R", "O", "R">>, <<"|", "i", "n", "f", "o">>, <<"|">>}
MessageTexts ==
  {<<"h", "i">>, <<"f", "i", "x", " ", "t", "a", "s", "k", "#", "3", "4">>, <<"a", "|", "b">>}
SuffixTexts ==
  {<<>>, <<" ", "|", " ", "t", "a", "s", "k", "=", "4", "2">>,
   <<"|", "T", "a", "s", "k", "=", "T", "-", "9">>, <<" ", "|", " ", "t", "a", "s", "k", "=">>}
BracketedPieces ==
  [stamp : StampTexts, gap : {<<>>, <<" ">>}, author : AuthorTexts,
   severity : SeverityTexts, message : MessageTexts, suffix : SuffixTexts]

BracketedLineOf(pieces) ==
  <<"[">> \o pieces.stamp \o <<"]">> \o pieces.gap \o pieces.author \o pieces.severity
    \o <<":", " ">> \o pieces.message \o pieces.suffix

\* Callers of parseVKLog at any time of the clock.
NextParse ==
  \/ \E pieces \in LinePieces :
       ParseVKLog([content |-> LineOf(pieces), source |-> None, receivedAt |-> clock])
  \/ \E pieces \in BracketedPieces :
       ParseVKLog([content |-> BracketedLineOf(pieces), source |-> None,
                   receivedAt |-> clock])
  \/ phase = "down" /\ Tick

SpecParse == Init /\ [][NextParse]_vars

\* The whole pipeline over one store: `collect --once` runs whose polls may
\* fail at any step, and between the runs callers that upsert a task and
\* record summaries in either mode.
NextPipeline ==
  \/ Start(TRUE)
  \/ \E p \in PollSlots : Poll(p)
  \/ UpsertTask(OtherSeed)
  \/ \E batch \in Batches : \E replaceExisting \in BOOLEAN :
       RecordSummaries(batch, replaceExisting)

SpecPipeline == Init /\ [][NextPipeline]_vars

\* The summaries a caller hands to the notifier: the items of the envelope,
\* each with its id and its risk.
Item(n, risk) == [id |-> <<"item-", ToString(n)>>, risk |-> risk]

SummaryEnvelopes ==
  {<<>>,
   <<Item(1, "high")>>,
   <<Item(1, "low")>>,
   <<Item(1, "medium"), Item(2, "high")>>,
   <<Item(1, "high"), Item(2, "low"), Item(3, "high")>>}

\* What happens to the dispatches of one operation on one platform.
DispatchEnvs(n) ==
  {[i \in 1..n |-> [platform |-> pf, ok |-> oks[i]]] :
     pf \in {"darwin", "linux"}, oks \in [1..n -> BOOLEAN]}

\* new SlackDigestNotifier(options): the interval runs when autoStart.
NewNotifier(options, autoStart) ==
  /\ notifier' = [made |-> TRUE, options |-> Resolved(options, autoStart),
                  pending |-> <<>>, timer |-> autoStart, owner |-> "caller"]
  /\ returned' = <<>>
  /\ wire' = <<>>
  /\ handed' = NoSummary
  /\ UNCHANGED <<envVars, diskVars, loopVars, uuid, runOnce, state, polls, starts,
                 pollsStarted, lastOutcome, pollStart, summaries, listed, parsedLog, parsedDiff,
                 prepared>>

\* notifier.stop()
StopNotifier ==
  /\ notifier.made /\ notifier.owner = "caller" /\ notifier.timer
  /\ notifier' = [notifier EXCEPT !.timer = FALSE]
  /\ returned' = <<>>
  /\ wire' = <<>>
  /\ handed' = NoSummary
  /\ UNCHANGED <<envVars, diskVars, loopVars, uuid, runOnce, state, polls, starts,
                 pollsStarted, lastOutcome, pollStart, summaries, listed, parsedLog, parsedDiff,
                 prepared>>

\* notifier.enqueue(summary, events) returns
Enqueue(summary) ==
  /\ notifier.made /\ notifier.owner = "caller"
  /\ Len(notifier.pending) < MaxPending
  /\ \E envs \in DispatchEnvs(Len(summary)) :
       LET r == enqueue(notifier, summary, envs)
       IN  /\ notifier' = r.this
           /\ returned' = r.notifications
           /\ wire' = r.requests
  /\ handed' = [given |-> TRUE, items |-> summary]
  /\ UNCHANGED <<envVars, diskVars, loopVars, uuid, runOnce, state, polls, starts,
                 pollsStarted, lastOutcome, pollStart, summaries, listed, parsedLog, parsedDiff,
                 prepared>>

\* notifier.flush() returns: called by a caller, or by the interval while
\* the timer runs.
Flush ==
  /\ notifier.made /\ notifier.owner = "caller"
  /\ \E envs \in DispatchEnvs(1) :
       LET r == flush(notifier, envs[1])
       IN  /\ notifier' = r.this
           /\ returned' = r.notifications
           /\ wire' = r.requests
  /\ handed' = NoSummary
  /\ UNCHANGED <<envVars, diskVars, loopVars, uuid, runOnce, state, polls, starts,
                 pollsStarted, lastOutcome, pollStart, summaries, listed, parsedLog, parsedDiff,
                 prepared>>

\* notifier.emit(summary, events) returns
Emit(summary) ==
  /\ notifier.made /\ notifier.owner = "caller"
  /\ Len(notifier.pending) < MaxPending
  /\ \E envs \in DispatchEnvs(Len(summary) + 1) :
       LET r == emit(notifier, summary, envs, envs[Len(summary) + 1])
       IN  /\ notifier' = r.this
           /\ returned' = r.notifications
           /\ wire' = r.requests
  /\ handed' = [given |-> TRUE, items |-> summary]
  /\ UNCHANGED <<envVars, diskVars, loopVars, uuid, runOnce, state, polls, starts,
                 pollsStarted, lastOutcome, pollStart, summaries, listed, parsedLog, parsedDiff,
                 prepared>>

\* emitDigest(summary, events, options) returns: a notifier of its own,
\* made with { ...options, autoStart: false }, emits the summary.  No caller
\* reaches that notifier; one call is followed per behaviour.
EmitDigest(summary, options) ==
  \E envs \in DispatchEnvs(Len(summary) + 1) :
    LET own == [made |-> TRUE, options |-> Resolved(options, FALSE),
                pending |-> <<>>, timer |-> FALSE, owner |-> "emitDigest"]
        r   == emit(own, summary, envs, envs[Len(summary) + 1])
    IN  /\ ~notifier.made
        /\ notifier' = r.this
        /\ returned' = r.notifications
        /\ wire' = r.requests
        /\ handed' = [given |-> TRUE, items |-> summary]
        /\ UNCHANGED <<envVars, diskVars, loopVars, uuid, runOnce, state, polls, starts,
                       pollsStarted, lastOutcome, pollStart, summaries, listed, parsedLog, parsedDiff,
                 prepared>>

\* Callers of the notifier.
NextNotify ==
  \/ \E options \in NotifierOptions : \E autoStart \in BOOLEAN :
       NewNotifier(options, autoStart)
  \/ StopNotifier
  \/ \E summary \in SummaryEnvelopes : Enqueue(summary)
  \/ Flush
  \/ \E summary \in SummaryEnvelopes : Emit(summary)
  \/ \E summary \in SummaryEnvelopes : \E options \in NotifierOptions :
       EmitDigest(summary, options)

SpecNotify == Init /\ [][NextNotify]_vars

\* The workspace is laid out before the collector first runs in it: with or
\* without .vk, with or without a readable .vk/tasks.json.
Prepare(shape) ==
  /\ phase = "down"
  /\ starts = 0
  /\ stateFile = NoFile
  /\ files[LogPath] = <<>>
  /\ shape # layout
  /\ layout' = shape
  /\ UNCHANGED <<files, repo, clock, diskVars, loopVars, uuid, runOnce, state, polls,
                 starts, pollsStarted, lastOutcome, pollStart, apiVars>>

\* `collect --once` in workspaces of every shape, commits landing between
\* and during the runs; every poll completes.
NextBare ==
  \/ \E shape \in Layouts : Prepare(shape)
  \/ Live /\ Commit
  \/ phase = "down" /\ Tick
  \/ Start(TRUE)
  \/ \E p \in PollSlots : PollResolved(p)

SpecBare == Init /\ [][NextBare]_vars

\* The workspace whose manifest has an entry without an id.
MixedLayout == [vkDir |-> TRUE, manifest |-> "mixed", folders |-> {}]

\* `collect --once` run again and again over a workspace whose manifest
\* stays as it was laid out; the log grows and the clock moves between the
\* runs.
NextTasks ==
  \/ Prepare(MixedLayout)
  \/ Live /\ AppendLine
  \/ phase \notin Running /\ Tick
  \/ Start(TRUE)
  \/ \E p \in PollSlots : PollResolved(p)

SpecTasks == Init /\ [][NextTasks]_vars

\* A file appears in .vk under `path`, holding one line.
WriteFile(path) ==
  \E l \in LineTexts :
    /\ layout.vkDir
    /\ path \notin DOMAIN files \cup layout.folders
    /\ files' = [q \in DOMAIN files \cup {path} |->
                   IF q = path THEN l \o <<"\n">> ELSE files[q]]
    /\ UNCHANGED <<repo, clock, layout, stateFile, events, tasks, uuid, phase, runOnce, state,
                   polls, pollPromise, timer, handlers, waiters, closeCalls, starts,
                   pollsStarted, lastOutcome, pollStart, exitCause, abandoned>>
    /\ UNCHANGED apiVars

\* The log of the earlier agent is removed.
RemoveOld ==
  /\ OldLogPath \in DOMAIN files
  /\ files' = [q \in DOMAIN files \ {OldLogPath} |-> files[q]]
  /\ UNCHANGED <<repo, clock, layout, stateFile, events, tasks, uuid, phase, runOnce, state,
                 polls, pollPromise, timer, handlers, waiters, closeCalls, starts,
                 pollsStarted, lastOutcome, pollStart, exitCause, abandoned>>
  /\ UNCHANGED apiVars

\* A directory is made where the log of the earlier agent was.
FolderOld ==
  /\ layout.vkDir
  /\ OldLogPath \notin DOMAIN files \cup layout.folders
  /\ layout' = [layout EXCEPT !.folders = @ \cup {OldLogPath}]
  /\ UNCHANGED <<files, repo, clock, stateFile, events, tasks, uuid, phase, runOnce, state,
                 polls, pollPromise, timer, handlers, waiters, closeCalls, starts,
                 pollsStarted, lastOutcome, pollStart, exitCause, abandoned>>
  /\ UNCHANGED apiVars

\* `collect --once` over a .vk directory whose entries come and go while the
\* agent log grows; every poll completes.
NextDir ==
  \/ Live /\ AppendLine
  \/ \E path \in {OldLogPath, NotesPath} : Live /\ WriteFile(path)
  \/ Live /\ RemoveOld
  \/ Live /\ FolderOld
  \/ Start(TRUE)
  \/ \E p \in PollSlots : PollResolved(p)

SpecDir == Init /\ [][NextDir]_vars

\* `git log` lists the commits since the last poll; `git show` succeeds for
\* any part of them.
PollFetch(p) ==
  \E fetchable \in SUBSET Range(gitLog(repo, polls[p].since)) :
    PollGitWith(p, GitListed(gitLog(repo, polls[p].since)), fetchable)

\* `collect --once`, run after run as the clock moves on and commits land;
\* the history can always be listed, a patch cannot always be read, and
\* every poll completes.
NextFetch ==
  \/ Live /\ Commit
  \/ phase \notin Running /\ Tick
  \/ Start(TRUE)
  \/ \E p \in PollSlots :
       PollTail(p) \/ PollFetch(p) \/ PollTasks(p) \/ PollIngest(p) \/ PollSave(p)

SpecFetch == Init /\ [][NextFetch]_vars

\* `git log` lists the commits since the last poll and every patch is read.
PollFetchAll(p) ==
  PollGitWith(p, GitListed(gitLog(repo, polls[p].since)),
              Range(gitLog(repo, polls[p].since)))

\* The collector in interval mode while the clock moves on; every commit
\* lands while a poll is running, before or after its history query; git
\* never fails, the store may.
NextGap ==
  \/ InFlight # {} /\ Commit
  \/ Live /\ Tick
  \/ Start(FALSE)
  \/ TimerTick
  \/ \E p \in PollSlots :
       \/ PollTail(p) \/ PollFetchAll(p) \/ PollTasks(p)
       \/ PollIngest(p) \/ PollIngestFail(p) \/ PollSave(p)

SpecGap == Init /\ [][NextGap]_vars

\* The agent writes the line "ab" in two writes: first "a", then "b" and
\* the newline.
WritePart ==
  /\ layout.vkDir
  /\ IF files[LogPath] = <<>> THEN TRUE ELSE files[LogPath][Len(files[LogPath])] = "\n"
  /\ Len(files[LogPath]) + 3 <= MaxFileLen
  /\ files' = [files EXCEPT ![LogPath] = @ \o <<"a">>]
  /\ UNCHANGED <<repo, clock, layout, stateFile, events, tasks, uuid, phase, runOnce, state,
                 polls, pollPromise, timer, handlers, waiters, closeCalls, starts,
                 pollsStarted, lastOutcome, pollStart, exitCause, abandoned>>
  /\ UNCHANGED apiVars

WriteRest ==
  /\ files[LogPath] # <<>>
  /\ files[LogPath][Len(files[LogPath])] # "\n"
  /\ files' = [files EXCEPT ![LogPath] = @ \o <<"b", "\n">>]
  /\ UNCHANGED <<repo, clock, layout, stateFile, events, tasks, uuid, phase, runOnce, state,
                 polls, pollPromise, timer, handlers, waiters, closeCalls, starts,
                 pollsStarted, lastOutcome, pollStart, exitCause, abandoned>>
  /\ UNCHANGED apiVars

\* The collector in interval mode over a log whose lines arrive in two
\* writes each; every poll completes.
NextPartial ==
  \/ Live /\ WritePart
  \/ Live /\ WriteRest
  \/ Start(FALSE)
  \/ TimerTick
  \/ \E p \in PollSlots : PollResolved(p)

SpecPartial == Init /\ [][NextPartial]_vars

\* The tailer over a log that grows by lines of every kind and is rotated;
\* the collector is started at any time of the clock.
NextTail ==
  \/ Live /\ AppendText
  \/ Live /\ Rotate
  \/ phase = "down" /\ Tick
  \/ Start(FALSE)
  \/ TimerTick
  \/ \E p \in PollSlots : PollResolved(p)

SpecTail == Init /\ [][NextTail]_vars

\* The store under a caller that inserts events and upserts tasks in any order.
NextStore ==
  \/ \E event \in ApiEvents : InsertEvent(event)
  \/ \E task \in ApiTasks : UpsertTask(task)

SpecStore == Init /\ [][NextStore]_vars

\* The store under a caller that inserts events and queries them.
NextQuery ==
  \/ UpsertTask(DemoSeed)
  \/ \E event \in QueryEvents : InsertEvent(event)
  \/ \E options \in Queries : ListEvents(options)

SpecQuery == Init /\ [][NextQuery]_vars

\* The store under a caller that records summaries for two tasks.
NextSummaries ==
  \/ \E task \in {DemoSeed, OtherSeed} : UpsertTask(task)
  \/ \E batch \in Batches : \E replaceExisting \in BOOLEAN :
       RecordSummaries(batch, replaceExisting)

SpecSummaries == Init /\ [][NextSummaries]_vars

\* ------------------------------------------------------------------ claims
\* The stored rows of the events table that came from log lines.
LogRows == {e \in events : e.type = "vk_log"}

\* The stored rows that came from file chunks of commits.
DiffRows == {e \in events : e.type = "git_diff"}

\* The non-blank lines of the agent log below the offset the cursor records.
CoveredLines ==
  NonBlankLines(SubSeq(files[LogPath], 1, OffsetOf(state.logOffsets, LogPath)))

\* The commits of a list of diffs, in order.
CommitsOf(diffs) == [i \in 1..Len(diffs) |-> diffs[i].commit]

\* C1: a log line ingested twice (the same text twice in the file, or the same
\* line read again by a later poll) is stored as one event: for every line
\* text the events table holds at most one row with that message.
C1_OneRowPerLine ==
  \A l \in LineTexts : Cardinality({e \in LogRows : e.message = l}) <= 1

\* C2: whatever polls, crashes and restarts happen, the ledger holds no two
\* rows for the same file chunk of the same commit, and no more log rows than
\* the log has lines.
C2_NoDuplicateRows ==
  /\ \A e1, e2 \in DiffRows :
       (e1.commit = e2.commit /\ e1.filePath = e2.filePath) => e1 = e2
  /\ Cardinality(LogRows) <= Len(NonBlankLines(files[LogPath]))

\* C3: after a poll that failed, the cursor the next poll starts from (the
\* cursor object of the running process) equals the cursor the failed poll
\* started from: the same lastPollIso, the same processed commits and, for
\* every log, the same offset (a log without an entry is at offset 0).
C3_FailedPollKeepsCursor ==
  (phase = "interval" /\ InFlight = {} /\ lastOutcome = "failed")
    => /\ state.lastPollIso = pollStart.lastPollIso
       /\ state.processedCommits = pollStart.processedCommits
       /\ \A q \in Paths :
            OffsetOf(state.logOffsets, q) = OffsetOf(pollStart.logOffsets, q)

\* C4: once a poll has completed successfully, every non-blank line of the log
\* that lies below the recorded offset is present in the ledger as an event.
C4_HistoryComplete ==
  (phase = "interval" /\ InFlight = {} /\ lastOutcome = "ok")
    => \A i \in 1..Len(CoveredLines) : \E e \in events : e.message = CoveredLines[i]

\* C5: in interval mode at most one poll is executing at any moment.
C5_OnePollInFlight == Cardinality(InFlight) <= 1

\* C5 witness: the timer is running while the poll it started is in flight, so
\* that a tick arriving now meets the guard of schedulePoll.
C5_Witness ==
  /\ phase = "interval"
  /\ timer
  /\ pollPromise # 0
  /\ InFlight = {pollPromise}
  /\ pollsStarted < MaxPolls

\* C6: a process that a stop signal ended has closed the store and left no
\* poll abandoned part-way.
C6_SignalWaitsForPoll ==
  (phase = "exited" /\ exitCause = "signal") => (~abandoned /\ closeCalls >= 1)

\* C7, the states of a run with runOnce: no timer, no scheduled poll, no signal
\* handler; while its poll runs the store is open, and once handleCollect has
\* returned the poll has ended and the store was closed once.
C7_RunOnceState ==
  runOnce =>
    /\ phase \notin {"interval", "shutdown"}
    /\ ~timer
    /\ pollPromise = 0
    /\ handlers = {}
    /\ phase = "first" => (closeCalls = 0 /\ Cardinality(InFlight) = 1)
    /\ phase = "returned" => (closeCalls = 1 /\ InFlight = {}
                               /\ lastOutcome \in {"ok", "failed"})

\* C7, the steps of a run with runOnce: the only poll such a run starts is the
\* one the start of the process starts.
C7_RunOnceStep ==
  (runOnce' /\ pollsStarted' # pollsStarted)
    => (phase \in {"down", "returned", "exited"} /\ phase' = "first")

\* C7: with runOnce set handleCollect executes exactly one poll, then closes
\* the store and returns; it starts no timer and no second poll.
C7_RunOnce == []C7_RunOnceState /\ [][C7_RunOnceStep]_vars

\* C7 witness: a run with runOnce has returned after its poll, store closed.
C7_Witness ==
  runOnce /\ phase = "returned" /\ closeCalls = 1 /\ lastOutcome = "ok"

\* What a step that completes collectGitDiffs must satisfy: the commits of
\* the diffs it hands to the poll, against the processed list it was given.
C8_Step ==
  \A p \in PollSlots :
    (polls[p].pc = "git" /\ polls'[p].pc = "tasks")
      => /\ Range(CommitsOf(polls'[p].diffs)) \cap Range(state.processedCommits) = {}
         /\ Cardinality(Range(CommitsOf(polls'[p].diffs))) = Len(polls'[p].diffs)

\* C8: a collection emits no diff for a commit that is in the processed set
\* it was handed, and emits no commit twice.
C8_NoReemission == [][C8_Step]_vars

\* C8 witness: a collection over a range that holds processed commits has
\* emitted a diff.
C8_Witness ==
  \E p \in PollSlots :
    /\ polls[p].pc = "tasks"
    /\ polls[p].diffs # <<>>
    /\ pollStart.processedCommits # <<>>
    /\ Range(pollStart.processedCommits) \subseteq Range(gitLog(repo, polls[p].since))

\* C9: the processed-commit list never exceeds the limit: in the cursor
\* object, in the cursor file and in the cursor loadState reads from it.
C9_ProcessedBounded ==
  /\ Len(state.processedCommits) <= PROCESSED_LIMIT
  /\ Len(stateFile.cursor.processedCommits) <= PROCESSED_LIMIT
  /\ Len(loadState(stateFile).processedCommits) <= PROCESSED_LIMIT

\* C9 witness: the oldest commit has been evicted from a full processed list
\* and the cursor was persisted.
C9_Witness ==
  /\ Len(repo) = Len(Shas)
  /\ stateFile.kind = "json"
  /\ stateFile.cursor.processedCommits = <<Shas[2], Shas[3]>>

\* What a step that completes collectVKLogs must satisfy when the log is as
\* long as the offset recorded for it.
C10_Step ==
  \A p \in PollSlots :
    (/\ polls[p].pc = "tail"
     /\ polls'[p].pc = "git"
     /\ LogPath \in DOMAIN state.logOffsets
     /\ Len(files[LogPath]) = state.logOffsets[LogPath])
      => /\ polls'[p].logs = <<>>
         /\ state'.logOffsets[LogPath] = state.logOffsets[LogPath]

\* C10: tailing the log when its length equals the offset recorded for its
\* path emits no entry and leaves that offset as it was, poll after poll.
C10_UnchangedFileEmitsNothing == [][C10_Step]_vars

\* C10 witness: a poll has tailed a non-empty log that was as long as the
\* offset its cursor recorded.
C10_Witness ==
  \E p \in PollSlots :
    /\ polls[p].pc = "git"
    /\ polls[p].logs = <<>>
    /\ LogPath \in DOMAIN pollStart.logOffsets
    /\ pollStart.logOffsets[LogPath] = Len(files[LogPath])
    /\ Len(files[LogPath]) > 0

\* The content of the raw log entries, in order.
ContentsOf(logs) == [i \in 1..Len(logs) |-> logs[i].content]

\* What a step that completes collectVKLogs must satisfy when the log is
\* shorter than the offset recorded for it.
C11_Step ==
  \A p \in PollSlots :
    (/\ polls[p].pc = "tail"
     /\ polls'[p].pc = "git"
     /\ Len(files[LogPath]) < OffsetOf(state.logOffsets, LogPath))
      => /\ ContentsOf(polls'[p].logs) = NonBlankLines(files[LogPath])
         /\ state'.logOffsets[LogPath] = Len(files[LogPath])

\* C11: when the log is shorter than the offset recorded for its path, the
\* tailer emits every non-blank line of the whole file and records the
\* current length as the new offset.
C11_ShrunkFileRestarts == [][C11_Step]_vars

\* C11 witness: a poll has tailed a rotated log from its start: the log is
\* shorter than the offset the poll started from, and its line was emitted.
C11_Witness ==
  \E p \in PollSlots :
    /\ polls[p].pc = "git"
    /\ Len(files[LogPath]) < OffsetOf(pollStart.logOffsets, LogPath)
    /\ polls[p].logs # <<>>
    /\ ContentsOf(polls[p].logs) = NonBlankLines(files[LogPath])
    /\ state.logOffsets[LogPath] = Len(files[LogPath])

\* What a step that completes collectVKLogs must satisfy when the log has
\* grown past the offset recorded for it.
C12_Step ==
  \A p \in PollSlots :
    (/\ polls[p].pc = "tail"
     /\ polls'[p].pc = "git"
     /\ Len(files[LogPath]) > OffsetOf(state.logOffsets, LogPath))
      => LET buffer == files[LogPath]
             old    == OffsetOf(state.logOffsets, LogPath)
             logs   == polls'[p].logs
         IN  /\ ContentsOf(logs) = NonBlankLines(SubSeq(buffer, old + 1, Len(buffer)))
             /\ \A i \in 1..Len(logs) :
                  /\ logs[i].receivedAt = polls[p].nowIso
                  /\ logs[i].content = Trim(logs[i].content)
                  /\ logs[i].content # <<>>
             /\ state'.logOffsets[LogPath] = Len(buffer)

\* C12: when the log has grown past its recorded offset, the tailer emits
\* exactly the trimmed non-blank lines of the bytes from the recorded offset
\* to the end, in file order, each stamped with the capture time of the poll,
\* and records the current length; earlier bytes are not emitted again.
C12_GrownFileEmitsNewLines == [][C12_Step]_vars

\* C12 witness: a poll that started from a recorded offset above 0 has emitted
\* the line appended since (its CR and newline removed) and not the line before
\* that offset, at a capture time after the epoch.
C12_Witness ==
  \E p \in PollSlots :
    /\ polls[p].pc = "git"
    /\ OffsetOf(pollStart.logOffsets, LogPath) > 0
    /\ files[LogPath] = <<"a", "\n", "b", "\r", "\n">>
    /\ ContentsOf(polls[p].logs) = <<<<"b">>>>
    /\ polls[p].logs[1].receivedAt = polls[p].nowIso
    /\ polls[p].nowIso > 0

\* The store holds at most one event row per event id and one task row per
\* task id.
C13_OneRowPerId ==
  /\ \A e1, e2 \in events : e1.id = e2.id => e1 = e2
  /\ \A t1, t2 \in tasks : t1.id = t2.id => t1 = t2

\* What an insertion or an upsert must satisfy: the row handed in is stored,
\* it is the only row of its id, every row of another id is as it was, and
\* the row count grows only when the id was not present.
C13_Step ==
  /\ \A event \in ApiEvents :
       InsertEvent(event)
         => /\ event \in events'
            /\ {r \in events' : r.id # event.id} = {r \in events : r.id # event.id}
            /\ event.id \in {r.id : r \in events}
                 => Cardinality(events') = Cardinality(events)
  /\ \A task \in ApiTasks :
       UpsertTask(task)
         => /\ WithId(task, uuid) \in tasks'
            /\ {r \in tasks' : r.id # WithId(task, uuid).id}
                 = {r \in tasks : r.id # WithId(task, uuid).id}
            /\ WithId(task, uuid).id \in TaskIds(tasks)
                 => Cardinality(tasks') = Cardinality(tasks)

\* C13: after any sequence of event insertions and task upserts the store
\* holds at most one row per event id and per task id, each row carrying the
\* values of the most recent insertion with its id, and an insertion of a
\* present id never increases the row count.
C13_UpsertById == []C13_OneRowPerId /\ [][C13_Step]_vars

\* C13 witness: the events table holds a row for every event id, so that any
\* further insertion is one of a present id; the tasks table holds the demo
\* task under its other title and a task whose id the store generated.
C13_Witness ==
  /\ Cardinality(events) = MaxEventIds
  /\ \A e \in events : e.taskId = NoText /\ e.createdAt = 1
  /\ \E t \in tasks : t.id = DemoTask /\ t.title = "Renamed"
  /\ \E t \in tasks : t.id \notin {DemoTask, <<"TASK-", "7">>}

\* What a call of listEvents without a limit must satisfy: the rows returned
\* are the stored events at or after `since` whose type is in the types list
\* when there is one and whose task is in the task list when there is one,
\* each once.
C14_Step ==
  (listed' # listed /\ ~listed'.options.limit.given)
    => LET q    == listed'.options
           rows == listed'.rows
       IN  /\ Range(rows)
                = {e \in events :
                     /\ e.createdAt >= q.since
                     /\ q.types = <<>> \/ \E i \in 1..Len(q.types) : e.type = q.types[i]
                     /\ q.taskIds = <<>> \/ \E i \in 1..Len(q.taskIds) : e.taskId = q.taskIds[i]}
           /\ Cardinality(Range(rows)) = Len(rows)

\* C14: listEvents returns exactly the stored events at or after the since
\* watermark that pass the type filter and the task filter (AND between the
\* two, OR within each list); without a limit none is omitted and no other
\* is returned.
C14_ListReturnsMatching == [][C14_Step]_vars

\* C14 witness: a call with a watermark, a type list and a task list has
\* returned one event while the store holds events that fail each of the three
\* tests.
C14_Witness ==
  /\ listed.made
  /\ ~listed.options.limit.given
  /\ listed.options.since = 1
  /\ listed.options.types = <<"git_diff">>
  /\ listed.options.taskIds = <<DemoTask>>
  /\ Len(listed.rows) = 1
  /\ Cardinality(events) = MaxListed

\* What a call of listEvents must satisfy: the rows come newest first by
\* createdAt, and with a positive limit they are at most that many and none
\* of the matching events left out is newer than one returned.
C15_Step ==
  listed' # listed
    => LET q    == listed'.options
           rows == listed'.rows
           left == {e \in events : Matches(e, q)} \ Range(rows)
       IN  /\ \A i, j \in 1..Len(rows) : i < j => rows[i].createdAt >= rows[j].createdAt
           /\ (q.limit.given /\ q.limit.n > 0)
                => /\ Len(rows) <= q.limit.n
                   /\ \A e \in left : \A r \in Range(rows) : e.createdAt <= r.createdAt

\* C15: listEvents returns its events ordered by createdAt descending (newest
\* first), and with a limit it returns at most that many events, the newest
\* of the matching ones.
C15_NewestFirst == [][C15_Step]_vars

\* What a call of recordSummaries in replace mode must leave, the items of the
\* batch not sharing an id: for every task the batch names, the stored summaries of the task are the summaries the
\* batch carries for it.
C16_Step ==
  \A batch \in Batches :
    (/\ RecordSummaries(batch, TRUE)
     /\ \A i, j \in 1..Len(batch) : (i # j /\ batch[i].id # NoText) => batch[i].id # batch[j].id)
      => \A i \in 1..Len(batch) :
           {r.summary : r \in {x \in summaries' : x.taskId = batch[i].taskId}}
             = {batch[k].summary : k \in {j \in 1..Len(batch) : batch[j].taskId = batch[i].taskId}}

\* C16: after recordSummaries in replace mode, for every task named in the
\* batch the stored summaries of the task are exactly those of the batch, also
\* when the batch carries several summaries for one task.
C16_ReplaceKeepsNewSet == [][C16_Step]_vars

\* What a start must do when the cursor file is missing or does not parse:
\* load the zero cursor and go on to the first poll.
C17_Step ==
  (starts' = starts + 1 /\ stateFile.kind # "json")
    => /\ state' = ZeroCursor
       /\ pollStart' = ZeroCursor
       /\ phase' = "first"
       /\ polls'[pollsStarted'].pc = "tail"

\* C17: loadState returns the zero cursor when the cursor file is missing and
\* when its content cannot be parsed; neither case raises or stops the
\* collector.
C17_LoadFallsBackToZero == [][C17_Step]_vars

\* A second run has started from a cursor file cut short while a cursor with
\* progress in it was being written.
C17_Witness ==
  /\ starts = 2
  /\ phase = "first"
  /\ stateFile.kind = Corrupt
  /\ OffsetOf(stateFile.cursor.logOffsets, LogPath) > 0
  /\ state = ZeroCursor

\* Two cursors that say the same: the same time of the last poll, the same
\* offset for the log (a missing entry reads as 0) and the same commit ledger.
SameCursor(a, b) ==
  /\ a.lastPollIso = b.lastPollIso
  /\ OffsetOf(a.logOffsets, LogPath) = OffsetOf(b.logOffsets, LogPath)
  /\ a.processedCommits = b.processedCommits

\* What an interrupted save must leave: a file that loads as the cursor it
\* held before or as the cursor being saved.
C18_Step ==
  \A p \in PollSlots :
    PollSaveCrash(p)
      => \E kept \in {loadState(stateFile), [state EXCEPT !.lastPollIso = polls[p].nowIso]} :
           SameCursor(loadState(stateFile'), kept)

\* C18: a save replaces the cursor atomically: if the process is interrupted
\* during a save, a later load returns the complete previous cursor or the
\* complete new one, never a partial, empty or zero-valued one.
C18_SaveIsAtomic == [][C18_Step]_vars

\* What the step that ends collectGitDiffs must satisfy when `git show`
\* failed for some commit of the listing: the warned commits are neither
\* emitted nor in the processed list handed back, every other unprocessed
\* commit of the listing is emitted, oldest first, and appended to the
\* processed list, and the poll moves on to its next stage.
C20_Step ==
  \A p \in PollSlots :
    (polls[p].pc = "git" /\ polls'[p] # polls[p] /\ polls'[p].warned # <<>>)
      => LET warned  == Range(polls'[p].warned)
             emitted == CommitsOf(polls'[p].diffs)
             before  == Range(state.processedCommits)
             inLog   == Range(gitLog(repo, polls[p].since))
         IN  /\ warned \subseteq inLog \ before
             /\ warned \cap Range(emitted) = {}
             /\ warned \cap Range(state'.processedCommits) = {}
             /\ Range(emitted) = inLog \ (before \cup warned)
             /\ state'.processedCommits
                  = TruncateProcessed(Dedupe(state.processedCommits) \o emitted)
             /\ polls'[p].pc = "tasks"

\* A poll that has ingested and is about to save holds no warned commit in
\* the processed list it will persist.
C20_SkippedNotIngested ==
  \A p \in PollSlots :
    polls[p].pc = "save"
      => \A sha \in Range(polls[p].warned) :
           (sha \notin Range(state.processedCommits))

\* C20: when fetching the patch of one commit fails, only that commit is
\* skipped: it is not emitted and not added to the processed set, every other
\* unprocessed commit of the listing is still fetched, emitted and added, and
\* the poll goes on to ingest and to persist the cursor.
C20_FailedFetchSkipsOneCommit == [][C20_Step]_vars /\ []C20_SkippedNotIngested

\* C20 witness: a poll in which one patch could not be read and another
\* could has ingested and is about to save its cursor.
C20_Witness ==
  \E p \in PollSlots :
    /\ polls[p].pc = "save"
    /\ polls[p].warned # <<>>
    /\ polls[p].diffs # <<>>
    /\ \A d \in Range(polls[p].diffs) : \E e \in DiffRows : e.createdAt = d.capturedAt
    /\ Range(CommitsOf(polls[p].diffs)) \subseteq Range(state.processedCommits)

\* listEvents({ since: epoch }) with no filter and no limit.
SinceEpoch == [since |-> 0, types |-> <<>>, taskIds |-> <<>>, limit |-> NoLimit]

\* What the step that completes a poll without error must leave: an event
\* for every log line and for every file chunk of every diff the poll
\* collected, and a non-empty answer to a query since the epoch when the poll
\* collected anything.
C19_Step ==
  \A p \in PollSlots :
    (polls[p].pc = "save" /\ polls'[p].pc = "none" /\ lastOutcome' = "ok")
      => LET logs  == polls[p].logs
             diffs == polls[p].diffs
         IN  /\ \A i \in 1..Len(logs) :
                  \A line \in Range(NonBlankLines(logs[i].content)) :
                    \E e \in events' :
                      /\ e.type \in {"vk_log", "incident"}
                      /\ e.message = ParseLine(line, logs[i].receivedAt).message
                      /\ e.createdAt = ParseLine(line, logs[i].receivedAt).createdAt
             /\ \A i \in 1..Len(diffs) :
                  /\ ParseContent(diffs[i].content) # <<>>
                  /\ \A chunk \in Range(ParseContent(diffs[i].content)) :
                       \E e \in events' :
                         /\ e.type = "git_diff"
                         /\ e.commit = diffs[i].commit
                         /\ e.filePath = chunk.filePath
             /\ (logs # <<>> \/ diffs # <<>>)
                  => {e \in events' : Matches(e, SinceEpoch)} # {}

\* C19: after a single poll that completes without error, every log line the
\* tailer emitted and every file chunk of every commit diff the collector
\* fetched in that poll has an event in the persisted ledger, so querying
\* events since the epoch returns at least one event whenever the workspace
\* had a log line or a commit.
C19_PollFillsLedger == [][C19_Step]_vars

\* C19 witness: the first `--once` run has returned after a poll that
\* ingested a log line and a two-file commit.
C19_Witness ==
  /\ starts = 1
  /\ phase = "returned"
  /\ lastOutcome = "ok"
  /\ LogRows # {}
  /\ Cardinality({e.filePath : e \in {d \in DiffRows : d.commit = "c2"}}) = 2
  /\ stateFile.kind = "json"

\* What a commit collection whose `git log` failed must hand back: no diff,
\* the processed list it was given, entry for entry, and a poll that moves on
\* to its tasks with the logs it has tailed.
C21_Step ==
  \A p \in PollSlots :
    PollGitWith(p, GitFailed, {})
      => /\ polls'[p].diffs = <<>>
         /\ state'.processedCommits = state.processedCommits
         /\ polls'[p].pc = "tasks"
         /\ polls'[p].logs = polls[p].logs

\* C21: when the history query itself fails, commit collection returns no
\* diffs and a processed set with the same entries in the same order as it
\* was given, does not raise, and the poll continues with its logs and tasks.
C21_HistoryFailureKeepsProcessed == [][C21_Step]_vars

\* C21 witness: a poll whose `git log` failed (commits it has not processed
\* are in range, none was emitted, none was warned about) has gone on to
\* ingest its tasks, its processed list of an earlier poll intact.
C21_Witness ==
  \E p \in PollSlots :
    /\ polls[p].pc = "save"
    /\ polls[p].diffs = <<>>
    /\ polls[p].warned = <<>>
    /\ polls[p].tasks # <<>>
    /\ state.processedCommits # <<>>
    /\ state.processedCommits = pollStart.processedCommits
    /\ Range(gitLog(repo, polls[p].since)) \ Range(state.processedCommits) # {}

\* What a poll must do when reading a log file fails: not end as failed, but
\* go on to collect its commits.
C22_Step ==
  \A p \in PollSlots :
    PollTailFail(p)
      => /\ lastOutcome' # "failed"
         /\ polls'[p].pc = "git"

\* C22: a failure to read one log file does not abort the surrounding poll:
\* the other log files, the commits and the tasks of that poll are still
\* ingested and the cursor is still persisted.
C22_LogReadFailureIsLocal == [][C22_Step]_vars

\* What the steps of a poll must do in a workspace without .vk or without a
\* readable manifest: tail no log entry and leave the offsets alone, load no
\* task, and save the cursor with the time of the poll, making .vk.
C23_Step ==
  \A p \in PollSlots :
    /\ (polls[p].pc = "tail" /\ polls'[p] # polls[p] /\ ~layout.vkDir)
         => /\ polls'[p].logs = <<>>
            /\ state'.logOffsets = state.logOffsets
            /\ polls'[p].pc = "git"
    /\ (polls[p].pc = "tasks" /\ polls'[p] # polls[p] /\ layout.manifest # "json")
         => /\ polls'[p].tasks = <<>>
            /\ polls'[p].pc = "ingest"
    /\ (polls[p].pc = "save" /\ polls'[p] # polls[p] /\ ~layout.vkDir)
         => /\ layout'.vkDir
            /\ stateFile' = FileOf([state EXCEPT !.lastPollIso = polls[p].nowIso])
            /\ lastOutcome' = "ok"

\* The diffs of a poll in such a workspace are those of every other poll:
\* the commits of the listing it has not processed.
C23_CommitsStillCollected ==
  \A p \in PollSlots :
    (polls[p].pc \in {"tasks", "ingest", "save"} /\ ~layout.vkDir)
      => Range(CommitsOf(polls[p].diffs)) \cup Range(polls[p].warned)
           \subseteq {c.sha : c \in Range(repo)}

\* C23: a workspace with no log directory and no task manifest is treated as
\* empty input: the poll completes without error with zero log entries and
\* zero tasks, still collects commits, and still persists an advanced cursor
\* (creating the missing directory for it); a malformed manifest likewise
\* yields zero tasks without failing the poll.
C23_BareWorkspaceIsEmptyInput == [][C23_Step]_vars /\ []C23_CommitsStillCollected

\* C23 witness: the first run in a workspace without .vk has returned: its
\* poll ingested a commit and no task, and saved a cursor later than the
\* default into the directory it made.
C23_Witness ==
  /\ starts = 1
  /\ phase = "returned"
  /\ lastOutcome = "ok"
  /\ layout = [vkDir |-> TRUE, manifest |-> "absent", folders |-> {}]
  /\ tasks = {}
  /\ LogRows = {}
  /\ DiffRows # {}
  /\ stateFile.kind = "json"
  /\ stateFile.cursor.lastPollIso > DEFAULT_SINCE
  /\ stateFile.cursor.logOffsets = ZeroCursor.logOffsets
  /\ stateFile.cursor.processedCommits # <<>>

\* A second witness of C23: a poll in a workspace whose manifest does not
\* parse has loaded no task and completed.
C23_MalformedWitness ==
  /\ phase = "returned"
  /\ lastOutcome = "ok"
  /\ layout.manifest = "malformed"
  /\ tasks = {}
  /\ stateFile.kind = "json"

\* The digits a line made of the given parts carries in its first token: of
\* the candidate token when its word is TASK, ISSUE or BUG in any case, its
\* separator is none, '-' or '#' and two digits or more follow (six at most
\* are taken); if not, of the token of the rest; if none, no digits.
C24_Expected(pieces) ==
  LET run   == pieces.digits \o pieces.rest.lead
      named == pieces.name \in {<<"T", "A", "S", "K">>, <<"t", "a", "s", "k">>,
                                <<"I", "s", "s", "u", "e">>, <<"B", "U", "G">>}
  IN  IF named /\ pieces.sep \in {<<>>, <<"-">>, <<"#">>} /\ Len(run) >= 2
      THEN SubSeq(run, 1, IF Len(run) > 6 THEN 6 ELSE Len(run))
      ELSE pieces.rest.token

\* C24: a log line that matches no structured pattern and contains a token
\* of the shape TASK, ISSUE or BUG (any letter case), an optional '-' or '#',
\* then 2 to 6 digits yields an event whose taskId is 'TASK-' followed by
\* those digits; a line with no such token yields an event with no taskId.
C24_TaskTokenExtracted ==
  \A pieces \in LinePieces :
    (parsedLog.made /\ parsedLog.log.content = LineOf(pieces))
      => /\ Len(parsedLog.events) = 1
         /\ parsedLog.events[1].message = LineOf(pieces)
         /\ parsedLog.events[1].taskId
              = IF C24_Expected(pieces) = <<>> THEN NoText
                ELSE <<"TASK-">> \o C24_Expected(pieces)
         /\ toDigestEventsFromVK(parsedLog.events, DEFAULT_SOURCE, uuid)[1].taskId
              = parsedLog.events[1].taskId

\* C24 witness: a lower-case token after other text gave TASK-1234, at a
\* capture time later than the epoch.
C24_Witness ==
  /\ parsedLog.made
  /\ parsedLog.log.content
       = <<"x", " ", "t", "a", "s", "k", "-", "1", "2", "3", "4", " ", "r", "e", "g">>
  /\ parsedLog.log.receivedAt > 0
  /\ parsedLog.events[1].taskId = <<"TASK-", "1", "2", "3", "4">>
  /\ parsedLog.events[1].createdAt = parsedLog.log.receivedAt

\* A second witness of C24: a line without a token gave no taskId.
C24_NoTokenWitness ==
  /\ parsedLog.made
  /\ parsedLog.log.content = <<"x", " ", "T", "A", "S", "K", "S", "_", "1">>
  /\ parsedLog.events[1].taskId = NoText

\* C25: no operation of the pipeline (poll, ingest, task upsert, summary
\* recording in either mode) ever removes a task: over any sequence of
\* operations the set of stored task ids only grows.
C25_TasksNeverRemoved == [][TaskIds(tasks) \subseteq TaskIds(tasks')]_vars

\* C25 witness: a store filled by a poll and by a caller holds both tasks
\* after summaries were recorded for them and a second run has polled.
C25_Witness ==
  /\ TaskIds(tasks) = {DemoTask, OtherSeed.id}
  /\ starts = 2
  /\ lastOutcome = "ok"
  /\ phase = "returned"
  /\ \E r \in summaries : r.taskId = DemoTask
  /\ \E r \in summaries : r.taskId = OtherSeed.id

\* C26: when the notifier mode is macOS, Slack credentials are ignored: no
\* request is ever sent to Slack whatever token and channel are supplied, and
\* every notification produced (immediate and batch) has channel 'macos'.
C26_MacOsIgnoresSlack ==
  (notifier.made /\ notifier.options.mode = "macos")
    => /\ wire = <<>>
       /\ \A i \in 1..Len(returned) : returned[i].channel = "macos"

\* C26 witness: a macOS notifier holding a Slack token and channel has
\* produced an immediate and a batch notification, delivered on darwin.
C26_Witness ==
  /\ notifier.made
  /\ notifier.options.mode = "macos"
  /\ notifier.options.slackToken = "token"
  /\ notifier.options.channel = "C123"
  /\ \E i, j \in 1..Len(returned) :
       /\ returned[i].type = "immediate"
       /\ returned[j].type = "batch"
       /\ returned[j].status = "sent"

\* The positions of the items of a summary whose risk is in the levels.
C27_ImmediatePositions(items, levels) == {i \in 1..Len(items) : items[i].risk \in levels}

\* C27: emitDigest returns one immediate notification for each summary item
\* whose risk is in the immediate-risk levels (default: high), in item order,
\* followed by exactly one batch notification that covers all items of the
\* summary, and it leaves no summary pending in the notifier's queue.
C27_EmitDigestReturns ==
  (notifier.made /\ notifier.owner = "emitDigest")
    => LET items == handed.items
           at    == C27_ImmediatePositions(items, notifier.options.immediateRiskLevels)
           n     == Cardinality(at)
       IN  /\ Len(returned) = n + 1
           /\ \A k \in 1..n :
                /\ returned[k].type = "immediate"
                /\ \E i \in at :
                     /\ Cardinality({j \in at : j < i}) = k - 1
                     /\ returned[k].summaryIds = <<items[i].id>>
           /\ returned[n + 1].type = "batch"
           /\ returned[n + 1].summaryIds = [i \in 1..Len(items) |-> items[i].id]
           /\ notifier.pending = <<>>

\* C27 witness: emitDigest with the default levels was handed a summary of a
\* high, a low and a high item and returned two alerts and the batch.
C27_Witness ==
  /\ notifier.made
  /\ notifier.owner = "emitDigest"
  /\ notifier.options.immediateRiskLevels = DEFAULT_IMMEDIATE_RISK
  /\ Len(handed.items) = 3
  /\ Len(returned) = 3
  /\ returned[2].summaryIds = <<handed.items[3].id>>
  /\ returned[3].type = "batch"

\* What every step must satisfy: a poll is started only by the start of the
\* collector (its initial poll) or by a tick that arrives while no poll is in
\* flight, one poll per such tick; the step in which a poll ends starts none.
C28_Step ==
  /\ pollsStarted' # pollsStarted
       => /\ pollsStarted' = pollsStarted + 1
          /\ InFlight = {}
          /\ \/ \E once \in BOOLEAN : Start(once)
             \/ TimerTick
  /\ (\E p \in InFlight : p \notin InFlight') => pollsStarted' = pollsStarted
  /\ (TimerTick /\ InFlight # {}) => UNCHANGED <<pollsStarted, polls, pollPromise>>

\* C28: a timer tick that arrives while a poll is in flight is dropped, not
\* queued: when the in-flight poll finishes no poll starts until the next
\* tick arrives, so the number of polls started never exceeds one (the
\* initial poll) plus the number of ticks that arrived while no poll was in
\* flight.
C28_TickInFlightDropped == [][C28_Step]_vars

\* C28 witness: the second poll of a run, started by a tick, has ended and
\* no further poll has started: the timer still runs and none is in flight.
C28_Witness ==
  /\ phase = "interval"
  /\ timer
  /\ starts = 1
  /\ pollsStarted = 2
  /\ InFlight = {}
  /\ pollPromise = 0
  /\ lastOutcome = "ok"

\* The steps of a poll follow one another in the order tail, git, tasks,
\* ingest, save, and the cursor file is written only by a poll that has
\* reached its save.
C29_Order ==
  /\ \A p \in PollSlots :
       polls'[p].pc # polls[p].pc
         => \/ <<polls[p].pc, polls'[p].pc>>
                 \in {<<"none", "tail">>, <<"tail", "git">>, <<"git", "tasks">>,
                      <<"tasks", "ingest">>, <<"ingest", "save">>}
            \/ polls'[p].pc = "none"
  /\ stateFile' # stateFile => \E p \in PollSlots : polls[p].pc = "save"

\* What the cursor file covers is in the store: a row for every line of the
\* log below the persisted offset, a row for every persisted processed
\* commit.
C29_PersistedCovered ==
  stateFile.kind = "json"
    => LET offset  == OffsetOf(stateFile.cursor.logOffsets, LogPath)
           covered == NonBlankLines(SubSeq(files[LogPath], 1, offset))
       IN  /\ offset <= Len(files[LogPath])
           /\ Cardinality({e \in events : e.type \in {"vk_log", "incident"}}) >= Len(covered)
           /\ \A sha \in Range(stateFile.cursor.processedCommits) :
                \E e \in DiffRows : e.commit = sha

\* C29: within a poll the steps run in the order tail logs, collect commits,
\* load tasks, ingest, persist cursor, and the cursor is written to storage
\* only after ingest has returned successfully: a persisted log offset or
\* processed-commit entry never covers data that has not been ingested into
\* the store.
C29_CursorAfterIngest == [][C29_Order]_vars /\ []C29_PersistedCovered

\* Where a commit stands in the history, oldest first; 0 if it is not in it.
C30_Age(sha) ==
  IF \E i \in 1..Len(repo) : repo[i].sha = sha
  THEN CHOOSE i \in 1..Len(repo) : repo[i].sha = sha
  ELSE 0

\* What the step that ends a commit collection must hand back: the list it
\* was given with the emitted commits appended, oldest commit first, cut
\* to its last PROCESSED_LIMIT entries.
C30_Step ==
  \A p \in PollSlots :
    (polls[p].pc = "git" /\ polls'[p].pc = "tasks")
      => LET emitted == CommitsOf(polls'[p].diffs)
             all     == state.processedCommits \o emitted
             n       == Len(all)
             keep    == IF n > PROCESSED_LIMIT THEN PROCESSED_LIMIT ELSE n
         IN  /\ \A i, j \in 1..Len(emitted) :
                  i < j => C30_Age(emitted[i]) < C30_Age(emitted[j])
             /\ state'.processedCommits = SubSeq(all, n - keep + 1, n)

\* C30: the processed-commit list follows append-then-truncate-from-the-
\* front: newly fetched commits are appended after the existing entries in
\* fetch order (oldest commit first) and, when the list is longer than the
\* limit, entries are removed from the front only, so the result is exactly
\* the last entries in insertion order and existing entries keep their
\* relative order.
C30_AppendThenTruncateFront == [][C30_Step]_vars

\* C30 witness: a collection handed a full list emitted one commit: the
\* oldest entry was evicted, the other existing entry is now first and the
\* new commit last.
C30_Witness ==
  \E p \in PollSlots :
    /\ polls[p].pc = "tasks"
    /\ Len(pollStart.processedCommits) = PROCESSED_LIMIT
    /\ Len(polls[p].diffs) = 1
    /\ state.processedCommits
         = <<pollStart.processedCommits[PROCESSED_LIMIT], polls[p].diffs[1].commit>>

\* A second witness of C30: two commits emitted in one collection, the older
\* appended before the newer.
C30_OrderWitness ==
  \E p \in PollSlots :
    /\ polls[p].pc = "tasks"
    /\ Len(polls[p].diffs) = 2
    /\ state.processedCommits = CommitsOf(polls[p].diffs)
    /\ C30_Age(polls[p].diffs[1].commit) < C30_Age(polls[p].diffs[2].commit)

\* Whether the loop of collectVKLogs reads the file at `q`.
C31_Read(q) ==
  /\ layout.vkDir
  /\ q \in DOMAIN files
  /\ q \notin layout.folders
  /\ NameOf(q).ext = ".log"

C31_Step ==
  \A p \in PollSlots :
    (polls[p].pc = "tail" /\ polls'[p].pc = "git")
      => /\ DOMAIN state.logOffsets \subseteq DOMAIN state'.logOffsets
         /\ \A q \in DOMAIN state.logOffsets :
              ~C31_Read(q) => state'.logOffsets[q] = state.logOffsets[q]
         /\ \A q \in DOMAIN state'.logOffsets \ DOMAIN state.logOffsets : C31_Read(q)
         /\ \A q \in DOMAIN files :
              C31_Read(q) => /\ q \in DOMAIN state'.logOffsets
                             /\ state'.logOffsets[q] = Len(files[q])

\* C31: the offset map the tailer returns holds every path of the map it was
\* given; the entry of a path that was not read in this poll (no such file, a
\* directory, not a .log name) is carried over unchanged, and only the files
\* read in this poll get or change an entry.
C31_UnreadOffsetsCarried == [][C31_Step]_vars

\* A poll has tailed the grown agent log while the cursor still held the
\* offset of a log that is gone: that entry is carried over.
C31_Witness ==
  \E p \in PollSlots :
    /\ polls[p].pc = "git"
    /\ OldLogPath \in DOMAIN pollStart.logOffsets
    /\ OldLogPath \notin DOMAIN files
    /\ pollStart.logOffsets[OldLogPath] = 2
    /\ state.logOffsets[OldLogPath] = 2
    /\ OffsetOf(state.logOffsets, LogPath) > OffsetOf(pollStart.logOffsets, LogPath)
    /\ NotesPath \in DOMAIN files

\* The same with a directory where the earlier log was.
C31_FolderWitness ==
  \E p \in PollSlots :
    /\ polls[p].pc = "git"
    /\ OldLogPath \in DOMAIN pollStart.logOffsets
    /\ OldLogPath \in layout.folders
    /\ state.logOffsets[OldLogPath] = 2
    /\ OffsetOf(state.logOffsets, LogPath) > OffsetOf(pollStart.logOffsets, LogPath)

\* The groups the first pattern captures from a bracketed line of the given
\* parts: none when the severity is a bare '|'.
C32_Groups(pieces) ==
  LET tail == pieces.message \o pieces.suffix
      id   == IF pieces.suffix = <<" ", "|", " ", "t", "a", "s", "k", "=", "4", "2">>
              THEN <<"4", "2">>
              ELSE IF pieces.suffix = <<"|", "T", "a", "s", "k", "=", "T", "-", "9">>
              THEN <<"T", "-", "9">>
              ELSE NoText
  IN  [ok        |-> pieces.severity # <<"|">>,
       timestamp |-> pieces.stamp,
       author    |-> pieces.author,
       severity  |-> IF pieces.severity = <<>> THEN NoText ELSE Tail(pieces.severity),
       message   |-> IF id = NoText THEN tail ELSE pieces.message,
       taskId    |-> id]

\* The matcher gives these groups for every bracketed line.
C32_MatchAsExpected ==
  \A pieces \in BracketedPieces :
    (parsedLog.made /\ parsedLog.log.content = BracketedLineOf(pieces))
      => LET g == C32_Groups(pieces)
             m == MatchBracketed(BracketedLineOf(pieces))
         IN  /\ m.ok = g.ok
             /\ g.ok => /\ m.timestamp = g.timestamp /\ m.author = g.author
                         /\ m.severity = g.severity /\ Trim(m.message) = g.message
                         /\ m.taskId = g.taskId

\* C32: when a structured pattern matches a line and captures no task
\* identifier, the task-token scan runs over the captured message: the event
\* has a taskId only if the message holds a task token, and a token that
\* occurs only outside the message (timestamp, author) gives no taskId.
C32_ScanOverMessage ==
  \A pieces \in BracketedPieces :
    LET g == C32_Groups(pieces)
    IN  (parsedLog.made /\ parsedLog.log.content = BracketedLineOf(pieces)
           /\ g.ok /\ g.taskId = NoText)
          => /\ Len(parsedLog.events) = 1
             /\ parsedLog.events[1].message = g.message
             /\ parsedLog.events[1].taskId
                  = IF TaskTokenId(g.message) = <<>> THEN NoText
                    ELSE <<"TASK-">> \o TaskTokenId(g.message)

\* A line whose author holds a token and whose message holds none has been
\* parsed.
C32_Witness ==
  /\ parsedLog.made
  /\ parsedLog.log.content
       = <<"[", "n", "o", "w", "]", " ", "b", "u", "g", "7", "7", ":", " ", "h", "i">>
  /\ parsedLog.events[1].message = <<"h", "i">>
  /\ parsedLog.events[1].author = <<"b", "u", "g", "7", "7">>

\* The content lines of a file with the given mark, as the diff shows them:
\* those of a text that starts with the mark twice read as a file header.
C33_Marked(f, mark) ==
  Cardinality({i \in 1..Len(f.lines) :
                 /\ f.lines[i].mark = mark
                 /\ ~StartsWith(f.lines[i].text, <<mark, mark>>)})

\* The content lines of a file with the given mark, whatever their text.
C33_MarkedAll(f, mark) == Cardinality({i \in 1..Len(f.lines) : f.lines[i].mark = mark})

C34_Outstanding ==
  {repo[i].sha : i \in 1..Len(repo)}
    \ (Range(state.processedCommits) \cup {e.commit : e \in DiffRows})

C34_Step ==
  \A p \in PollSlots :
    (polls[p].pc = "git" /\ polls'[p].pc = "tasks" /\ polls'[p].warned = <<>>)
      => C34_Outstanding \subseteq Range(CommitsOf(polls'[p].diffs))

\* C34: a commit whose patch could not be read during a poll that otherwise
\* succeeded is not lost: a later poll in which every patch can be read
\* lists it again and emits its diff, whatever lastPollIso has become.
C34_SkippedCommitRelisted == [][C34_Step]_vars

\* The stored rows of the diff of a commit.
C35_RowsOf(sha) == {e \in DiffRows : e.commit = sha}

\* When a poll completes successfully, every commit older than the time the
\* poll captured is in the store: it was emitted by the poll during which it
\* landed or by this one.
C35_Step ==
  \A p \in PollSlots :
    (polls[p].pc = "save" /\ polls'[p].pc # "save" /\ lastOutcome' = "ok")
      => \A i \in 1..Len(repo) :
           repo[i].time < polls[p].nowIso => C35_RowsOf(repo[i].sha) # {}

\* No commit is emitted by two polls: the store holds one row per file
\* chunk of its patch at most.
C35_NotTwice ==
  \A i \in 1..Len(repo) :
    Cardinality(C35_RowsOf(repo[i].sha)) <= Len(ParseContent(PatchOf(repo[i].sha)))

\* C35: no commit falls between two polls: a commit created while a poll is
\* running, before or after that poll's history query, is emitted by that
\* poll or by the next successful poll, never by neither and never by both.
C35_NoCommitBetweenPolls == [][C35_Step]_vars /\ []C35_NotTwice

\* Where the last complete line of the agent log ends: the position of its
\* last newline, 0 when it has none.
C36_Terminated ==
  LET nl == {i \in 1..Len(files[LogPath]) : files[LogPath][i] = "\n"}
  IN  IF nl = {} THEN 0 ELSE CHOOSE i \in nl : \A k \in nl : k <= i

C36_Step ==
  \A p \in PollSlots :
    (polls[p].pc = "tail" /\ polls'[p].pc = "git")
      => /\ \A i \in 1..Len(polls'[p].logs) :
              polls'[p].logs[i].content
                \in Range(NonBlankLines(SubSeq(files[LogPath], 1, C36_Terminated)))
         /\ OffsetOf(state'.logOffsets, LogPath) <= C36_Terminated

\* C36: a log line is emitted as one whole entry even when a poll reads the
\* file between the write of the line's first part and the write of its
\* remainder: the tailer never emits a fragment of a line and never moves
\* the offset past an unterminated final line.
C36_WholeLinesOnly == [][C36_Step]_vars

C37_Step ==
  \A p \in PollSlots :
    (polls[p].pc = "tail" /\ polls'[p].pc = "git")
      => \A line \in Range(NonBlankLines(files[LogPath])) :
           \/ line \in Range(ContentsOf(polls'[p].logs))
           \/ \E e \in LogRows : e.message = line

\* C37: when the log file is replaced by new content between two polls,
\* every line of the new content is emitted by the next poll, also when the
\* new content is as long as or longer than the offset recorded for the old
\* content: after a poll has tailed the file, each of its lines is among the
\* entries of this poll or was stored by an earlier one.
C37_RotatedContentEmitted == [][C37_Step]_vars

\* The store of a process is closed once at most, once when the process has
\* ended through shutdown(), and no poll is at work once it is closed.
C38_ClosedOnce ==
  /\ closeCalls <= 1
  /\ (phase = "exited" /\ exitCause = "signal" /\ handlers = {} /\ closeCalls > 0)
       => closeCalls = 1
  /\ closeCalls > 0 => InFlight = {}

\* Once shutdown() has begun no poll starts.
C38_Step == phase = "shutdown" => pollsStarted' = pollsStarted

\* C38: the store handle is closed exactly once and is never used after it
\* is closed, for any arrival order of SIGINT, SIGTERM and timer ticks,
\* including a second signal that arrives while shutdown is still waiting
\* for the in-flight poll; after shutdown has begun no new poll starts.
C38_StoreClosedOnce == []C38_ClosedOnce /\ [][C38_Step]_vars
\* ------------------------------------------------------------ repo-provider
\* PrepareRepositoryOptions: runProbe and requireProbeSuccess as the caller
\* passes them (or not at all); cleanWorktrees is
\* `cleanupTTL.worktrees && worktreeDirectory`, cleanClones is
\* `cleanupTTL.clones && cloneDirectory`.
PrepareOptions ==
  [runProbe            : {"unset", "true", "false"},
   requireProbeSuccess : {"unset", "true", "false"},
   cleanWorktrees      : BOOLEAN,
   cleanClones         : BOOLEAN]

\* What the steps of one call meet: whether ensureBareRepository,
\* cleanupExpiredDirectories, touch(worktreeDirectory), prepareWorktree,
\* touch(worktreePath), prepareClone and touch(clonePath) return (TRUE) or
\* raise (FALSE), and the exit codes of the two sbt commands of the probe.
PrepareWorlds ==
  [bare       : BOOLEAN,
   cleanup    : BOOLEAN,
   touchBase  : BOOLEAN,
   worktree   : BOOLEAN,
   about      : {0, 1},
   headCommit : {0, 1},
   touchTree  : BOOLEAN,
   clone      : BOOLEAN,
   touchClone : BOOLEAN]

\* const ok = about.code === 0 && headCommit.code === 0; runCommand always
\* resolves and inspectPlugins catches, so probeRepository never raises.
probeRepository(about, headCommit) ==
  [ok     |-> about = 0 /\ headCommit = 0,
   reason |-> IF about # 0 THEN "sbt about failed"
              ELSE IF headCommit # 0 THEN "sbt gitHeadCommit failed"
              ELSE "none"]

\* options.runProbe !== false
RunProbe(o) == o.runProbe # "false"

\* options.requireProbeSuccess !== false
RequireProbeSuccess(o) == o.requireProbeSuccess # "false"

\* prepareRepository rejects; `step` is the call that raised
Raised(step) ==
  [kind |-> "raised", mode |-> "none", by |-> step, probeRun |-> FALSE, probeOk |-> FALSE]

\* return { cwd, mode, probe }
Returned(mode, run, ok) ==
  [kind |-> "returned", mode |-> mode, by |-> "none", probeRun |-> run, probeOk |-> ok]

\* The try block is left without a return: the probe was required and
\* failed, or the catch ran.
FellThrough ==
  [kind |-> "fallthrough", mode |-> "none", by |-> "none", probeRun |-> FALSE,
   probeOk |-> FALSE]

\* A try block that takes the worktree whatever the probe says.
WorktreeUnprobed(o, w) ==
  IF ~w.worktree \/ ~w.touchTree THEN FellThrough
  ELSE Returned("worktree", RunProbe(o), probeRepository(w.about, w.headCommit).ok)

\* try { prepareWorktree; probe; touch; return } catch { warn }
WorktreeAttempt(o, w) ==
  IF ~w.worktree THEN FellThrough
  ELSE IF RunProbe(o)
    THEN IF ~probeRepository(w.about, w.headCommit).ok /\ RequireProbeSuccess(o)
         THEN FellThrough
         ELSE IF ~w.touchTree THEN FellThrough
         ELSE Returned("worktree", TRUE, probeRepository(w.about, w.headCommit).ok)
    ELSE IF ~w.touchTree THEN FellThrough
         ELSE Returned("worktree", FALSE, FALSE)

\* prepareClone, the probe of the clone when one is run, touch, return
CloneAttempt(o, w) ==
  IF ~w.clone THEN Raised("prepareClone")
  ELSE IF ~w.touchClone THEN Raised("touchClone")
  ELSE Returned("clone", RunProbe(o),
                RunProbe(o) /\ probeRepository(w.about, w.headCommit).ok)

\* maybeCleanup returns: no cleanupExpiredDirectories call it makes raises
maybeCleanup(o, w) == (o.cleanWorktrees \/ o.cleanClones) => w.cleanup

\* What the try block ended in decides between its return and the clone.
AfterAttempt(attempt, o, w) ==
  IF attempt.kind = "returned" THEN attempt ELSE CloneAttempt(o, w)

prepareRepository(o, w) ==
  IF ~w.bare THEN Raised("ensureBareRepository")
  ELSE IF ~maybeCleanup(o, w) THEN Raised("maybeCleanup")
  ELSE IF o.cleanWorktrees /\ ~w.touchBase THEN Raised("touchBase")
  ELSE AfterAttempt(WorktreeAttempt(o, w), o, w)

\* prepareRepository(options) settles; one call is followed per behaviour.
PrepareRepository(o, w) ==
  /\ phase = "down"
  /\ ~prepared.made
  /\ prepared' = [made |-> TRUE, options |-> o, world |-> w,
                  result |-> prepareRepository(o, w)]
  /\ UNCHANGED <<envVars, diskVars, loopVars, uuid, runOnce, state, polls,
                 starts, pollsStarted, lastOutcome, pollStart, summaries, listed,
                 parsedLog, parsedDiff, notifierVars>>

\* Callers of prepareRepository with every choice of options, the steps
\* meeting every outcome.
NextPrepare == \E o \in PrepareOptions, w \in PrepareWorlds : PrepareRepository(o, w)

SpecPrepare == Init /\ [][NextPrepare]_vars

\* ------------------------------------------------------------------ C39
\* A poll that changes the task table once it holds rows adds none.
C39_Step ==
  (tasks # {} /\ tasks' # tasks) => Cardinality(tasks') <= Cardinality(tasks)

\* C39: polling again over an unchanged task manifest keeps one stored task
\* per manifest entry: the number of task rows never exceeds the number of
\* manifest entries and does not grow from one poll to the next, also when
\* an entry carries no id.
C39_TaskRowsDoNotGrow ==
  [](Cardinality(tasks) <= Len(TaskEntries(layout))) /\ [][C39_Step]_vars

\* ------------------------------------------------------------------ C40
\* The worktree was prepared and the probe does not stand in its way: none
\* was run, it succeeded, or its success is not required.
C40_WorktreeUsable ==
  /\ prepared.world.worktree
  /\ \/ ~RunProbe(prepared.options)
     \/ prepared.world.about = 0 /\ prepared.world.headCommit = 0
     \/ ~RequireProbeSuccess(prepared.options)

\* A step ahead of the worktree attempt raised.
C40_SetupFailed ==
  \/ ~prepared.world.bare
  \/ (prepared.options.cleanWorktrees \/ prepared.options.cleanClones)
       /\ ~prepared.world.cleanup
  \/ prepared.options.cleanWorktrees /\ ~prepared.world.touchBase

\* C40 as stated: mode 'worktree' only for a usable worktree, mode 'clone'
\* whenever a call returns otherwise, and a call raises only when the
\* bare-cache setup or the clone preparation fails.
C40_RaisesOnlyForBareOrClone ==
  prepared.made
    => /\ prepared.result.mode = "worktree" => C40_WorktreeUsable
       /\ (prepared.result.kind = "returned" /\ ~C40_WorktreeUsable)
            => prepared.result.mode = "clone"
       /\ prepared.result.kind = "raised"
            => prepared.result.by \in {"ensureBareRepository", "prepareClone"}

\* C40: prepareRepository returns mode 'worktree' only when the worktree
\* was prepared and no probe was run, the probe succeeded, or probe success
\* is not required; a call that returns in any other case, or after the
\* timestamp of the worktree could not be refreshed, returns mode 'clone';
\* and a call raises exactly when the bare-cache setup, the cleanup of
\* expired directories or the refresh of the worktree directory's timestamp
\* fails, or when it falls back to the clone and the clone preparation or
\* the refresh of the clone's timestamp fails.
C40_ModeAndRaises ==
  prepared.made
    => /\ prepared.result.mode = "worktree" => C40_WorktreeUsable
       /\ (prepared.result.kind = "returned"
             /\ ~(C40_WorktreeUsable /\ prepared.world.touchTree))
            => prepared.result.mode = "clone"
       /\ prepared.result.kind = "raised"
            <=> \/ C40_SetupFailed
                \/ /\ ~(C40_WorktreeUsable /\ prepared.world.touchTree)
                   /\ ~prepared.world.clone \/ ~prepared.world.touchClone
       /\ prepared.result.kind \in {"returned", "raised"}

\* A required probe fails in a prepared worktree and the call returns the
\* clone.
C40_Witness ==
  /\ prepared.made
  /\ prepared.world.worktree
  /\ prepared.options.runProbe = "unset"
  /\ prepared.options.requireProbeSuccess = "unset"
  /\ prepared.world.about = 0
  /\ prepared.world.headCommit = 1
  /\ prepared.result.kind = "returned"
  /\ prepared.result.mode = "clone"
  /\ prepared.result.probeRun /\ ~prepared.result.probeOk

====
